---- MODULE Spec2Model ----
(***************************************************************************)
(* Model of the Nissan ROM utilities: the checksum kernel of nislib.c      *)
(* (checksum_std, checksum_fix) and the analysis pipeline of nisrom.c      *)
(* (open_rom, find_loader, find_fid, find_ramf, ... , main).               *)
(*                                                                         *)
(* A uint32_t is the pair <<hi, lo>> of its 16-bit halves, so that all     *)
(* 32-bit arithmetic keeps its width (mod 2^32).  A buffer is a function   *)
(* from byte offsets to bytes; offsets of [0, siz) outside its domain      *)
(* hold FillByte (erased flash).                                           *)
(***************************************************************************)
EXTENDS Integers, Sequences, FiniteSets, TLC

----------------------------------------------------------------------------
(* 32-bit unsigned arithmetic on <<hi, lo>> pairs *)

H16 == 256 * 256

U32(hi, lo) == <<hi, lo>>

Zero32 == <<0, 0>>

One32 == <<0, 1>>

UINT32_MAX == <<65535, 65535>>

\* value of a small non-negative integer as uint32_t
ToU32(n) == <<(n \div H16) % H16, n % H16>>

\* integer value of a uint32_t known to be below 2^31
ToInt(a) == a[1] * H16 + a[2]

\* a fits a non-negative TLC integer
Small(a) == a[1] < 32768

Add32(a, b) ==
    LET l == a[2] + b[2]
        h == a[1] + b[1] + (l \div H16)
    IN  <<h % H16, l % H16>>

Neg32(a) ==
    LET l == (H16 - a[2]) % H16
        h == (2 * H16 - 1 - a[1] + (IF a[2] = 0 THEN 1 ELSE 0)) % H16
    IN  <<h, l>>

Sub32(a, b) == Add32(a, Neg32(b))

Lt32(a, b) == a[1] < b[1] \/ (a[1] = b[1] /\ a[2] < b[2])

Ge32(a, b) == ~Lt32(a, b)

\* x ^ y on 1, 2, 4, 8 and 16 bits
Xor1(x, y) == (x + y) % 2
Xor2(x, y) == 2 * Xor1(x \div 2, y \div 2) + Xor1(x % 2, y % 2)
Xor4(x, y) == 4 * Xor2(x \div 4, y \div 4) + Xor2(x % 4, y % 4)
Xor8(x, y) == 16 * Xor4(x \div 16, y \div 16) + Xor4(x % 16, y % 16)
Xor16(x, y) == 256 * Xor8(x \div 256, y \div 256) + Xor8(x % 256, y % 256)

Xor32(a, b) == <<Xor16(a[1], b[1]), Xor16(a[2], b[2])>>

\* a >> 1
Shr1(a) == <<a[1] \div 2, (a[2] \div 2) + (a[1] % 2) * 32768>>

\* a << 1
Shl1(a) == <<(2 * a[1] + a[2] \div 32768) % H16, (2 * a[2]) % H16>>

\* 2^n, 0 <= n <= 15
Pow2(n) == <<1, 2, 4, 8, 16, 32, 64, 128, 256, 512, 1024, 2048, 4096, 8192,
             16384, 32768>>[n + 1]

\* bit n (0..31) of a: a & (1 << n), as a bool
Bit32(a, n) ==
    IF n >= 16 THEN (a[1] \div Pow2(n - 16)) % 2 = 1
    ELSE (a[2] \div Pow2(n)) % 2 = 1

\* 1 << n, 0 <= n <= 31
OneShl(n) == IF n >= 16 THEN <<Pow2(n - 16), 0>> ELSE <<0, Pow2(n)>>

\* low and high 16 bits of x * y, x and y below 2^16
Mul16lo(x, y) ==
    ((x % 256) * (y % 256)
     + (((x \div 256) * (y % 256) + (x % 256) * (y \div 256)) % 256) * 256) % H16

Mul16hi(x, y) ==
    LET mid == (x \div 256) * (y % 256) + (x % 256) * (y \div 256)
        t   == (x % 256) * (y % 256) + (mid % 256) * 256
    IN  (x \div 256) * (y \div 256) + (mid \div 256) + (t \div H16)

\* a * n (mod 2^32), n a non-negative integer
MulN(a, n) ==
    LET nh == (n \div H16) % H16
        nl == n % H16
    IN  <<(Mul16hi(a[2], nl) + Mul16lo(a[1], nl) + Mul16lo(a[2], nh)) % H16,
          Mul16lo(a[2], nl)>>

----------------------------------------------------------------------------
(* Buffers *)

FillByte == 255

\* the bytes of a uint32_t, most significant first (SH endianness)
Bytes32(v) == <<v[1] \div 256, v[1] % 256, v[2] \div 256, v[2] % 256>>

\* byte at offset i of [0, siz)
ByteAt(b, i) == IF i \in DOMAIN b THEN b[i] ELSE FillByte

\* uint32_t reconst_32(const uint8_t *buf), buf = &b[i], all four bytes in range
reconst_32(b, i) ==
    <<ByteAt(b, i) * 256 + ByteAt(b, i + 1), ByteAt(b, i + 2) * 256 + ByteAt(b, i + 3)>>

FillWord == <<FillByte * 256 + FillByte, FillByte * 256 + FillByte>>

\* a read of four bytes at offset o lies inside [0, siz)
InB(siz, o) == o >= 0 /\ o + 4 <= siz

\* the word read at offset o: the buffer's when the read is inside [0, siz),
\* else whatever the memory around the buffer holds (g)
Rd(b, siz, o, g) == IF InB(siz, o) THEN reconst_32(b, o) ELSE g

\* void write_32b(uint32_t val, uint8_t *buf), buf = &b[i]: the bytes that fall
\* inside [0, siz) change the buffer, the others land outside it
write_32b_off1(val, b, siz, i) ==
    [k \in {j \in i + 1 .. i + 4 : j >= 0 /\ j < siz} |-> Bytes32(val)[k - i]] @@ b

write_32b(val, b, siz, i) ==
    [k \in {j \in i .. i + 3 : j >= 0 /\ j < siz} |-> Bytes32(val)[k - i + 1]] @@ b

\* the byte offsets a write_32b at i touches
Slot(i) == i .. i + 3

\* sum and xor of the words of b at the offsets of S
RECURSIVE FoldSet(_, _)
FoldSet(b, S) ==
    LET one(o)       == [sum |-> reconst_32(b, o), xor |-> reconst_32(b, o)]
        join(lo, hi) == [sum |-> Add32(lo.sum, hi.sum), xor |-> Xor32(lo.xor, hi.xor)]
        split(m)     == join(FoldSet(b, {x \in S : x < m}), FoldSet(b, {x \in S : x >= m}))
    IN  IF S = {} THEN [sum |-> Zero32, xor |-> Zero32]
        ELSE IF Cardinality(S) = 1 THEN one(CHOOSE x \in S : TRUE)
        ELSE split(CHOOSE x \in S : Cardinality({y \in S : y < x}) = Cardinality(S) \div 2)

Min(a, b) == IF a < b THEN a ELSE b

Max(a, b) == IF a > b THEN a ELSE b

SetMax(S) == CHOOSE x \in S : \A y \in S : y <= x

SetMin(S) == CHOOSE x \in S : \A y \in S : x <= y

\* -1 stands for "none" where a set of offsets is empty
MinOr(S) == IF S = {} THEN -1 ELSE SetMin(S)

MaxOr(S) == IF S = {} THEN -1 ELSE SetMax(S)

\* The words read by a loop  for (cur = start; k < n; cur += 4)  over b, without
\* the offsets of skip.  Runs of filler are folded in closed form: only the
\* offsets that touch a byte of DOMAIN b are read one by one.
\*   spec : offsets read inside [0, siz) that touch an explicit byte
\*   nFill: number of offsets read inside [0, siz) that hold only filler
\*   nOob : number of offsets read (partly) outside [0, siz)
Walk(b, siz, start, n, skip) ==
    LET inAP(o) == o >= start /\ o < start + 4 * n /\ (o - start) % 4 = 0
        nIn     == Min(n, Max(0, (siz - start) \div 4))
        touch   == {i - ((i - start) % 4) : i \in DOMAIN b}
        skipIn  == {o \in skip : inAP(o) /\ InB(siz, o)}
        skipOob == {o \in skip : inAP(o) /\ ~InB(siz, o)}
        out(spec) == [spec  |-> spec,
                      nFill |-> nIn - Cardinality(spec \cup skipIn),
                      nOob  |-> (n - nIn) - Cardinality(skipOob)]
    IN  out({o \in touch : inAP(o) /\ InB(siz, o)} \ skip)

\* sum and xor of the words of a Walk; a read outside the buffer yields g
Fold(b, siz, start, n, skip, g) ==
    LET total(w, f) ==
            [sum |-> Add32(f.sum, Add32(MulN(FillWord, w.nFill), MulN(g, w.nOob))),
             xor |-> Xor32(f.xor,
                           Xor32(IF w.nFill % 2 = 1 THEN FillWord ELSE Zero32,
                                 IF w.nOob % 2 = 1 THEN g ELSE Zero32))]
        over(w) == total(w, FoldSet(b, w.spec))
    IN  over(Walk(b, siz, start, n, skip))

----------------------------------------------------------------------------
(* nislib.c: checksum_std *)

\* lowest / highest offset of [0, siz), a multiple of 4, that touches no
\* explicit byte (callers make sure there is one)
RECURSIVE UpFree(_, _)
UpFree(b, o) == IF \E k \in 0 .. 3 : o + k \in DOMAIN b THEN UpFree(b, o + 4) ELSE o

RECURSIVE DownFree(_, _)
DownFree(b, o) == IF \E k \in 0 .. 3 : o + k \in DOMAIN b THEN DownFree(b, o - 4) ELSE o

\* Where the second loop of checksum_std sees the value v: the offsets of
\* explicit words equal to v, the filler words when v is the filler, and the
\* trailing read past the end when that yields v.
Matches(b, siz, v, g) ==
    LET n == (siz + 3) \div 4
        found(w, hits, fill, oob) ==
            [count |-> Cardinality(hits) + (IF fill THEN w.nFill ELSE 0)
                                         + (IF oob THEN w.nOob ELSE 0),
             first |-> MinOr(hits \cup (IF fill THEN {UpFree(b, 0)} ELSE {})
                                  \cup (IF oob THEN {4 * (n - 1)} ELSE {})),
             last  |-> MaxOr(hits \cup (IF fill THEN {DownFree(b, 4 * (siz \div 4) - 4)} ELSE {})
                                  \cup (IF oob THEN {4 * (n - 1)} ELSE {}))]
        scan(w) == found(w, {o \in w.spec : reconst_32(b, o) = v},
                         w.nFill > 0 /\ v = FillWord, w.nOob > 0 /\ v = g)
    IN  scan(Walk(b, siz, 0, n, {}))

\* the offset the loop leaves in *p_cks / *p_ckx when the value was seen:
\* every match overwrites the output, so the last one stays
Located_first(m) == m.first

Located(m) == m.last

\* return value of checksum_std from the two counters
StdRet_either(ckscount, ckxcount) == IF ckxcount = 0 \/ ckscount = 0 THEN -1 ELSE 0

StdRet(ckscount, ckxcount) == IF ckxcount = 0 /\ ckscount = 0 THEN -1 ELSE 0

\* the two values checksum_std looks for
StdVals(b, siz, g) ==
    LET vals(f) == [cks |-> f.xor, ckx |-> Sub32(f.sum, Shl1(f.xor))]
    IN  vals(Fold(b, siz, 0, (siz + 3) \div 4, {}, g))

\* what *p_cks / *p_ckx holds after the call: the loop assigns it only on a
\* match, so a value that was never seen leaves the caller's variable as it was
Output_reset(m, prior) == IF m.count > 0 THEN Located(m) ELSE -1

Output(m, prior) == IF m.count > 0 THEN Located(m) ELSE prior

\* int checksum_std(buf, siz, long *p_cks, long *p_ckx); pcks0 and pckx0 are
\* what the two output variables hold before the call
checksum_std(b, siz, pcks0, pckx0, g) ==
    LET out(v, ms, mx) ==
            [ret      |-> StdRet(ms.count, mx.count),
             p_cks    |-> Output(ms, pcks0),
             p_ckx    |-> Output(mx, pckx0),
             ckscount |-> ms.count,
             ckxcount |-> mx.count,
             cks      |-> v.cks,
             ckx      |-> v.ckx,
             oob      |-> siz % 4 # 0]
        find(v) == out(v, Matches(b, siz, v.cks, g), Matches(b, siz, v.ckx, g))
    IN  IF siz <= 0
        THEN [ret |-> -1, p_cks |-> pcks0, p_ckx |-> pckx0, ckscount |-> 0, ckxcount |-> 0,
              cks |-> Zero32, ckx |-> Zero32, oob |-> FALSE]
        ELSE find(StdVals(b, siz, g))

----------------------------------------------------------------------------
(* nislib.c: checksum_fix *)

\* The bit loop  for (bitcur = 31; bitcur >= 0; bitcur--)  of checksum_fix, from
\* bit bitcur down: the bits an, bn it ORs into a and b, or ok = FALSE when it
\* returns from inside the loop.  "carry = ~sn" on a bool is non-zero for both
\* values of sn, hence TRUE.  The statements after the first "return" of the
\* dx branch (the mang back-off) are never run.
RECURSIVE Solve(_, _, _, _)
Solve(ds, dx, bitcur, carry) ==
    LET step(xn, sn, an, bn, r) ==
            IF xn /\ carry /\ sn
            THEN [ok |-> FALSE, a |-> Zero32, b |-> Zero32, n |-> 1, xs |-> TRUE]
            ELSE [ok |-> r.ok,
                  a  |-> IF an THEN Add32(r.a, OneShl(bitcur)) ELSE r.a,
                  b  |-> IF bn THEN Add32(r.b, OneShl(bitcur)) ELSE r.b,
                  n  |-> r.n + 1,
                  xs |-> xn \/ r.xs]
        bits(xn, sn) ==
            step(xn, sn, IF xn THEN TRUE ELSE carry, IF xn THEN FALSE ELSE carry,
                 Solve(ds, dx, bitcur - 1, IF xn THEN TRUE ELSE sn))
    IN  IF bitcur < 0 THEN [ok |-> TRUE, a |-> Zero32, b |-> Zero32, n |-> 0, xs |-> FALSE]
        ELSE bits(Bit32(dx, bitcur), Bit32(ds, bitcur))

\* the argument check at the head of checksum_fix: TRUE when it returns at once
FixAbort_full(siz, p_cks, p_ckx, p_cs, p_cx, p_mang) ==
    \/ siz <= 0
    \/ siz % 4 # 0
    \/ \E p \in {p_cks, p_ckx, p_cs, p_cx, p_mang} : ~InB(siz, p)

FixAbort(siz, p_cks, p_ckx, p_cs, p_cx, p_mang) ==
    \/ siz <= 0
    \/ siz % 4 # 0
    \/ p_cks >= siz
    \/ p_ckx >= siz
    \/ p_cs >= siz
    \/ p_cx >= siz

\* correction values of checksum_fix from the desired cks, ckx and the fold
\* (s, x) of the buffer with the three slots zeroed
FixVals_nomang(cks, ckx, s, x) ==
    LET out(dx0, r) == [ok |-> r.ok, a |-> r.a, b |-> r.b, mang |-> Zero32, dx |-> dx0,
                        n |-> r.n, xs |-> r.xs]
        solve(ds0, dx0) == out(dx0, Solve(ds0, dx0, 31, FALSE))
    IN  solve(Sub32(cks, s), Xor32(ckx, x))

FixVals_noxor(cks, ckx, s, x) ==
    LET out(mang, dx1, r) == [ok |-> r.ok, a |-> r.a, b |-> r.b, mang |-> mang, dx |-> dx1,
                              n |-> r.n, xs |-> r.xs]
        solve(mang, ds1, dx1) == out(mang, dx1, Solve(ds1, dx1, 31, FALSE))
        fold(ds0, dx0) == solve(dx0, Sub32(ds0, dx0), dx0)
    IN  fold(Sub32(cks, s), Xor32(ckx, x))

FixVals_nosub(cks, ckx, s, x) ==
    LET out(mang, dx1, r) == [ok |-> r.ok, a |-> r.a, b |-> r.b, mang |-> mang, dx |-> dx1,
                              n |-> r.n, xs |-> r.xs]
        solve(mang, ds1, dx1) == out(mang, dx1, Solve(ds1, dx1, 31, FALSE))
        fold(ds0, dx0) == solve(dx0, ds0, Xor32(dx0, dx0))
    IN  fold(Sub32(cks, s), Xor32(ckx, x))

FixVals(cks, ckx, s, x) ==
    LET out(mang, dx1, r) == [ok |-> r.ok, a |-> r.a, b |-> r.b, mang |-> mang, dx |-> dx1,
                              n |-> r.n, xs |-> r.xs]
        solve(mang, ds1, dx1) == out(mang, dx1, Solve(ds1, dx1, 31, FALSE))
        fold(ds0, dx0) == solve(dx0, Sub32(ds0, dx0), Xor32(dx0, dx0))
    IN  fold(Sub32(cks, s), Xor32(ckx, x))

\* void checksum_fix(buf, siz, p_cks, p_ckx, p_cs, p_cx, p_mang).
\* g is what a read outside the buffer yields; ocs0, ocx0 are the values of the
\* uninitialised locals ocs, ocx handed to the final checksum_std.
\*   status: "abort" (argument check), "nosol" (return inside the bit loop),
\*           "fixed" / "notfixed" (the message of the final verification)
\*   wr    : byte offsets written;  oob: some read was outside [0, siz)
\*   dx    : the xor target the bit loop starts with;  n: the iterations of
\*           the bit loop that were started;  xs: some bit took the dx branch
checksum_fix(b, siz, p_cks, p_ckx, p_cs, p_cx, p_mang, g, ocs0, ocx0) ==
    LET wr   == Slot(p_cs) \cup Slot(p_cx) \cup Slot(p_mang)
        oob1 == ~InB(siz, p_cks) \/ ~InB(siz, p_ckx)
        verify(cks, ckx, v, b6, r) ==
            [buf    |-> b6,
             status |-> IF Rd(b6, siz, r.p_cks, g) = cks /\ Rd(b6, siz, r.p_ckx, g) = ckx
                        THEN "fixed" ELSE "notfixed",
             wr     |-> wr,
             oob    |-> oob1 \/ ~InB(siz, r.p_cks) \/ ~InB(siz, r.p_ckx),
             cks |-> cks, ckx |-> ckx, a |-> v.a, b |-> v.b, mang |-> v.mang,
             dx |-> v.dx, n |-> v.n, xs |-> v.xs]
        written(cks, ckx, v, b6) ==
            verify(cks, ckx, v, b6, checksum_std(b6, siz, ocs0, ocx0, g))
        solved(cks, ckx, b3, v) ==
            IF ~v.ok
            THEN [buf |-> b3, status |-> "nosol", wr |-> wr, oob |-> oob1,
                  cks |-> cks, ckx |-> ckx, a |-> v.a, b |-> v.b, mang |-> v.mang,
                  dx |-> v.dx, n |-> v.n, xs |-> v.xs]
            ELSE written(cks, ckx, v,
                         write_32b(v.mang,
                                   write_32b(v.b, write_32b(v.a, b3, siz, p_cs), siz, p_cx),
                                   siz, p_mang))
        folded(cks, ckx, b3, f) == solved(cks, ckx, b3, FixVals(cks, ckx, f.sum, f.xor))
        zeroed(cks, ckx, b3) ==
            folded(cks, ckx, b3, Fold(b3, siz, 0, siz \div 4, {p_cks, p_ckx}, g))
    IN  IF FixAbort(siz, p_cks, p_ckx, p_cs, p_cx, p_mang)
        THEN [buf |-> b, status |-> "abort", wr |-> {}, oob |-> FALSE,
              cks |-> Zero32, ckx |-> Zero32, a |-> Zero32, b |-> Zero32, mang |-> Zero32,
              dx |-> Zero32, n |-> 0, xs |-> FALSE]
        ELSE zeroed(Rd(b, siz, p_cks, g), Rd(b, siz, p_ckx, g),
                    write_32b(Zero32,
                              write_32b(Zero32, write_32b(Zero32, b, siz, p_cs), siz, p_cx),
                              siz, p_mang))

----------------------------------------------------------------------------
(* nislib.h: search primitives, fold, IVT heuristics (declared in the header; *)
(* bodies after the interface description)                                   *)

MIN_ROMSIZE == 131072

MAX_ROMSIZE == 2097152

IVT_MINSIZE == 256

\* unsigned comparison of a uint32_t with a non-negative int
LtN(a, n) == Small(a) /\ ToInt(a) < n

GeN(a, n) == ~LtN(a, n)

\* buffer index of a uint32_t offset; an offset of 2^31 or more is far outside
\* any buffer
Idx(a) == IF Small(a) THEN ToInt(a) ELSE -8

\* the byte read at offset i: the buffer's inside [0, siz), else a byte of the
\* memory around the buffer
ByteRd(b, siz, i, g) == IF i >= 0 /\ i < siz THEN ByteAt(b, i) ELSE Bytes32(g)[(i % 4) + 1]

\* the needle (a sequence of bytes) is at offset o
NeedleAt(b, siz, o, needle, g) ==
    \A k \in 1 .. Len(needle) : ByteRd(b, siz, o + k - 1, g) = needle[k]

\* const uint8_t *u8memstr(buf + base, buflen, needle, nlen): offset (from buf)
\* of the first occurrence in [base, base + buflen), -1 for NULL.  The needles
\* searched hold no filler byte, so a match starts on an explicit byte or
\* where the needle reaches past the end of the buffer (the memory there
\* repeats one word, so four offsets past the end stand for all).
u8memstr(b, siz, base, buflen, needle, g) ==
    LET last  == base + buflen - Len(needle)
        cands == {o \in DOMAIN b \cup (siz - Len(needle) + 1 .. siz + 3) : o >= base /\ o <= last}
    IN  MinOr({o \in cands : NeedleAt(b, siz, o, needle, g)})

\* the search above had to read past the end of the buffer
u8memstr_oob(b, siz, base, buflen, needle, g) ==
    LET past(r) == base + buflen > siz /\ (r < 0 \/ r + Len(needle) > siz)
    IN  past(u8memstr(b, siz, base, buflen, needle, g))

\* const uint8_t *u32memstr(buf + base, buflen, needle): offset (from buf) of
\* the first word base + 4k, 4k + 4 <= buflen, equal to needle; -1 for NULL
u32memstr(b, siz, base, buflen, v, g) ==
    LET n == buflen \div 4
        first(w, hits, fill, oob) ==
            MinOr(hits \cup (IF fill THEN {UpFree(b, base)} ELSE {})
                       \cup (IF oob THEN {base + 4 * (n - w.nOob)} ELSE {}))
        scan(w) == first(w, {o \in w.spec : reconst_32(b, o) = v},
                         w.nFill > 0 /\ v = FillWord, w.nOob > 0 /\ v = g)
    IN  scan(Walk(b, siz, base, n, {}))

\* void sum32(buf + base, siz, &sum, &xor): fold of the siz / 4 words
sum32(b, siz, base, len, g) == Fold(b, siz, base, len \div 4, {}, g)

\* int checksum_alt2(buf + base, siz, &p_ack_s, &p_ack_x, p_skip1, p_skip2):
\* the algebra of checksum_std with the fold skipping p_skip1 and p_skip2;
\* p_as, p_ax are offsets from base, -1 when unset
checksum_alt2(b, siz, base, len, skip, g) ==
    LET out(ps, px) ==
            [ret  |-> IF ps < 0 \/ px < 0 THEN -1 ELSE 0,
             p_as |-> IF ps < 0 THEN -1 ELSE ps - base,
             p_ax |-> IF px < 0 THEN -1 ELSE px - base]
        find(cks, ckx) == out(u32memstr(b, siz, base, len, cks, g),
                              u32memstr(b, siz, base, len, ckx, g))
        vals(f) == find(f.xor, Sub32(f.sum, Shl1(f.xor)))
    IN  IF len <= 0
        THEN [ret |-> -1, p_as |-> -1, p_ax |-> -1]
        ELSE vals(Fold(b, siz, base, (len + 3) \div 4, {base + s : s \in skip}, g))

\* bool check_ivt(buf + base, siz): the reset vectors look like an IVT
check_ivt(b, siz, base, len, g) ==
    LET sane(w0, w1, w2, w3) ==
            /\ len >= IVT_MINSIZE
            /\ w0 = w2
            /\ w1 = w3
            /\ w0[1] < 256 /\ w0[2] % 2 = 0
            /\ w1[1] >= 65534 /\ w1[2] % 4 = 0
    IN  sane(Rd(b, siz, base, g), Rd(b, siz, base + 4, g),
             Rd(b, siz, base + 8, g), Rd(b, siz, base + 12, g))

\* uint32_t find_ivt(buf + base, siz): offset (from base) of the first aligned
\* window that passes check_ivt, -1 for none.  A window of filler fails, so
\* only windows touching an explicit byte are looked at.
find_ivt(b, siz, base, len) ==
    LET touch == {i - ((i - base) % 4) - 4 * k : i \in DOMAIN b, k \in 0 .. 3}
        cands == {o \in touch : o >= base /\ o - base + IVT_MINSIZE <= len - (len % 4)}
        rel(hit) == IF hit < 0 THEN -1 ELSE hit - base
    IN  IF len < IVT_MINSIZE THEN -1
        ELSE rel(MinOr({o \in cands : check_ivt(b, siz, o, len - (o - base), Zero32)}))

----------------------------------------------------------------------------
(* nissan_romdefs.h: structure layouts and the catalog of ROM types *)

\* offsetof(struct loader_t, loader / database / cpu), sizeof(struct loader_t)
LOADER_TAG == 0

LOADER_DATABASE == 17

LOADER_CPU == 30

LOADER_SIZE == 40

\* offsetof(struct fid_base1_t, FID / database / cpu)
FID_FID == 2

FID_DATABASE == 19

FID_CPU == 32

\* sizeof the largest FID struct
FID_MAXSIZE == 256

\* enum fidtype_ic: FID_UNK, the known types, FID_MAX
FID_UNK == 0

\* "LOADER", "DATAB", "DATABASE" and the CPU tags, as bytes
STR_LOADER == <<76, 79, 65, 68, 69, 82>>

STR_DATAB == <<68, 65, 84, 65, 66>>

STR_DATABASE == <<68, 65, 84, 65, 66, 65, 83, 69>>

CPU_705101 == <<83, 72, 55, 48, 53, 49, 48, 49>>

CPU_705507 == <<83, 72, 55, 48, 53, 53, 48, 55>>

CPU_705822 == <<83, 72, 55, 48, 53, 56, 50, 50>>

CPU_72531 == <<83, 72, 55, 50, 53, 51, 49, 32>>

CPU_OTHER == <<83, 72, 55, 48, 53, 56, 88, 88>>

\* const struct fidtype_t fidtypes[]
fidtypes == <<
    [cpu |-> CPU_705101, ROMsize |-> 262144, FIDbase_size |-> 90,
     RAMF_header |-> <<65535, 32768>>, pRAMF_maxdist |-> 12,
     pRAMjump |-> 16, pRAM_DLAmax |-> 20, packs_start |-> 0, packs_end |-> 0,
     pIVT2 |-> 0, pECUREC |-> 0, pROMend |-> 0, IVT2_expected |-> Zero32,
     features |-> {"STDCKS"}],
    [cpu |-> CPU_705507, ROMsize |-> 524288, FIDbase_size |-> 90,
     RAMF_header |-> <<65535, 32768>>, pRAMF_maxdist |-> 32,
     pRAMjump |-> 16, pRAM_DLAmax |-> 20, packs_start |-> 68, packs_end |-> 72,
     pIVT2 |-> 92, pECUREC |-> 84, pROMend |-> 0, IVT2_expected |-> <<0, 4096>>,
     features |-> {"STDCKS", "ALTCKS", "IVT2"}],
    [cpu |-> CPU_705822, ROMsize |-> 1048576, FIDbase_size |-> 90,
     RAMF_header |-> <<65535, 32768>>, pRAMF_maxdist |-> 32,
     pRAMjump |-> 16, pRAM_DLAmax |-> 20, packs_start |-> 68, packs_end |-> 72,
     pIVT2 |-> 92, pECUREC |-> 84, pROMend |-> 0, IVT2_expected |-> <<0, 4096>>,
     features |-> {"STDCKS", "ALTCKS", "ALT2CKS", "IVT2"}],
    [cpu |-> CPU_72531, ROMsize |-> 524288, FIDbase_size |-> 90,
     RAMF_header |-> Zero32, pRAMF_maxdist |-> 0,
     pRAMjump |-> 0, pRAM_DLAmax |-> 0, packs_start |-> 8, packs_end |-> 12,
     pIVT2 |-> 4, pECUREC |-> 0, pROMend |-> 16, IVT2_expected |-> <<0, 4096>>,
     features |-> {"ALTCKS", "ALT2CKS", "ECUREC", "IVT2"}] >>

FID_MAX == Len(fidtypes) + 1

\* enum fidtype_ic get_fidtype(const uint8_t *cpu): the catalog entry whose CPU
\* string is the 8 bytes at offset o, FID_UNK for none
get_fidtype(b, siz, o, g) ==
    LET pick(m) == IF m = {} THEN FID_UNK ELSE SetMin(m)
    IN  pick({i \in 1 .. Len(fidtypes) : NeedleAt(b, siz, o, fidtypes[i].cpu, g)})

----------------------------------------------------------------------------
(* nisrom.c: struct romfile and the finders *)

\* struct romfile rf = {0}; loaded stands for rf->buf != NULL
rf0 ==
    [siz |-> 0, loaded |-> FALSE,
     p_loader |-> Zero32, loader_v |-> 0,
     p_fid |-> Zero32, fid_ic |-> FID_UNK, sfid_size |-> 0,
     p_ramf |-> Zero32, ramf_offset |-> 0,
     p_cks |-> Zero32, p_ckx |-> Zero32,
     p_acs |-> Zero32, p_acx |-> Zero32,
     p_a2cs |-> Zero32, p_a2cx |-> Zero32,
     p_ivt2 |-> Zero32, p_acstart |-> Zero32, p_acend |-> Zero32,
     p_ecurec |-> Zero32, p_ac2start |-> Zero32,
     cks_alt_good |-> FALSE, cks_alt2_good |-> FALSE, has_rm160 |-> FALSE,
     pRAMjump |-> Zero32, pRAM_DLAmax |-> Zero32]

\* a length computed in uint32_t, as an int (a wrapped length is "very long")
LenOf(a) == IF Small(a) THEN ToInt(a) ELSE 2 * MAX_ROMSIZE

\* the word at the uint32_t offset a
RdU(b, siz, a, g) == Rd(b, siz, Idx(a), g)

\* that read lies (partly) outside the buffer
OobU(siz, a) == ~InB(siz, Idx(a))

\* sscanf(s, "%d", &v) on the bytes at offset o: the digits of a decimal run
RECURSIVE Digits(_, _, _, _, _)
Digits(b, siz, o, g, acc) ==
    LET next(c) == IF c >= 48 /\ c <= 57 /\ acc < 100000
                   THEN Digits(b, siz, o + 1, g, acc * 10 + (c - 48))
                   ELSE acc
    IN  next(ByteRd(b, siz, o, g))

\* u32 find_loader(struct romfile *rf): ret is the returned value
find_loader(rf, b, g) ==
    LET found(sl, c, p) ==
            [rf  |-> [rf EXCEPT !.loader_v = IF c >= 48 /\ c <= 57
                                             THEN Digits(b, rf.siz, sl + 6, g, 0)
                                             ELSE 0,
                                !.p_loader = p],
             ret |-> p]
        search(sl) ==
            IF sl < 0
            THEN [rf |-> [rf EXCEPT !.loader_v = 0], ret |-> UINT32_MAX]
            ELSE found(sl, ByteRd(b, rf.siz, sl + 6, g), Sub32(ToU32(sl), ToU32(LOADER_TAG)))
    IN  IF ~rf.loaded THEN [rf |-> rf, ret |-> UINT32_MAX]
        ELSE search(u8memstr(b, rf.siz, 0, rf.siz, STR_LOADER, g))

\* the tail of find_fid, from the bounds check on, for the anchor offset sf
find_fid_at(rf, b, g, sf, oob) ==
    LET typed(sf_offset, ic, oobc) ==
            IF GeN(Add32(sf_offset, ToU32(FID_MAXSIZE)), rf.siz)
            THEN [rf |-> rf, ret |-> UINT32_MAX, oob |-> oob]
            ELSE IF ic = FID_UNK
            THEN [rf |-> [rf EXCEPT !.p_fid = sf_offset], ret |-> UINT32_MAX, oob |-> oobc]
            ELSE [rf  |-> [rf EXCEPT !.p_fid = sf_offset, !.fid_ic = ic,
                                     !.sfid_size = fidtypes[ic].FIDbase_size],
                  ret |-> sf_offset, oob |-> oobc]
        cat(sf_offset, ic) ==
            typed(sf_offset, ic, oob \/ Idx(sf_offset) < 0)
        at(sf_offset) ==
            cat(sf_offset, get_fidtype(b, rf.siz, Idx(Add32(sf_offset, ToU32(FID_CPU))), g))
    IN  at(Sub32(ToU32(sf), ToU32(FID_DATABASE)))

\* u32 find_fid(struct romfile *rf)
find_fid(rf, b, g) ==
    LET again(r0, oob1, base, len) ==
            LET second(sf2, oob2) ==
                    IF sf2 < 0
                    THEN [rf |-> r0, ret |-> UINT32_MAX, oob |-> oob2]
                    ELSE find_fid_at(r0, b, g, sf2, oob2)
            IN  second(u8memstr(b, rf.siz, base, len, STR_DATAB, g),
                       oob1 \/ u8memstr_oob(b, rf.siz, base, len, STR_DATAB, g))
        first(r0, sf1, off1, oob1, isldr) ==
            IF ~isldr THEN find_fid_at(r0, b, g, sf1, oob1)
            ELSE IF ~LtN(Add32(off1, ToU32(6)), rf.siz)
            THEN find_fid_at(r0, b, g, sf1, oob1)
            ELSE again(r0, oob1, Idx(Add32(off1, ToU32(LOADER_SIZE))),
                       LenOf(Sub32(Sub32(ToU32(rf.siz), off1), One32)))
        search(r0, sf1) ==
            IF sf1 < 0 THEN [rf |-> r0, ret |-> UINT32_MAX, oob |-> FALSE]
            ELSE first(r0, sf1, Sub32(ToU32(sf1), ToU32(FID_DATABASE)),
                       sf1 - LOADER_DATABASE < 0,
                       NeedleAt(b, rf.siz, sf1 - LOADER_DATABASE, SubSeq(STR_LOADER, 1, 4), g))
    IN  IF ~rf.loaded THEN [rf |-> rf, ret |-> UINT32_MAX, oob |-> FALSE]
        ELSE search([rf EXCEPT !.fid_ic = FID_UNK],
                    u8memstr(b, rf.siz, 0, rf.siz, STR_DATAB, g))

\* static void parse_ramf(struct romfile *rf)
parse_ramf(rf, b, g) ==
    LET at(o) == Add32(rf.p_ramf, ToU32(o))
        parse(ft, alt, rdac, rdiv) ==
            [rf  |-> [rf EXCEPT
                        !.pRAMjump = IF ft.pRAMjump # 0
                                     THEN RdU(b, rf.siz, at(ft.pRAMjump), g) ELSE @,
                        !.pRAM_DLAmax = IF ft.pRAMjump # 0
                                        THEN RdU(b, rf.siz, at(ft.pRAM_DLAmax), g) ELSE @,
                        !.p_acstart = IF ~alt THEN UINT32_MAX
                                      ELSE IF rdac THEN RdU(b, rf.siz, at(ft.packs_start), g)
                                      ELSE @,
                        !.p_acend = IF ~alt THEN UINT32_MAX
                                    ELSE IF rdac THEN RdU(b, rf.siz, at(ft.packs_end), g)
                                    ELSE @,
                        !.p_ivt2 = IF ft.pIVT2 = 0 THEN UINT32_MAX
                                   ELSE IF rdiv THEN RdU(b, rf.siz, at(ft.pIVT2), g) ELSE @],
             oob |-> \/ ft.pRAMjump # 0 /\ (OobU(rf.siz, at(ft.pRAMjump))
                                            \/ OobU(rf.siz, at(ft.pRAM_DLAmax)))
                     \/ rdac /\ (OobU(rf.siz, at(ft.packs_start))
                                 \/ OobU(rf.siz, at(ft.packs_end)))
                     \/ rdiv /\ OobU(rf.siz, at(ft.pIVT2))]
        feat(ft, alt) == parse(ft, alt,
                               alt /\ rf.p_acstart = Zero32 /\ rf.p_acend = Zero32,
                               ft.pIVT2 # 0 /\ rf.p_ivt2 = Zero32)
        type(ft) == feat(ft, "ALTCKS" \in ft.features)
    IN  type(fidtypes[rf.fid_ic])

\* altcs_bsize of validate_altcks
altcs_bsize(p_acstart, p_acend) ==
    LET round(d) == (d - (d % 4)) + 4
    IN  round(LenOf(Sub32(Add32(p_acend, One32), p_acstart)))

\* the test of validate_altcks on the two search results (-1 for NULL)
AltMissing_both(pacs, pacx) == pacs < 0 /\ pacx < 0

AltMissing(pacs, pacx) == pacs < 0 \/ pacx < 0

\* int validate_altcks(struct romfile *rf)
validate_altcks(rf, b, g) ==
    LET found(pacs, pacx, oob) ==
            IF AltMissing(pacs, pacx)
            THEN [rf |-> rf, ret |-> -1, oob |-> oob]
            ELSE [rf  |-> [rf EXCEPT !.p_acs = IF pacs < 0 THEN @ ELSE ToU32(pacs),
                                     !.p_acx = IF pacx < 0 THEN @ ELSE ToU32(pacx),
                                     !.cks_alt_good = TRUE],
                  ret |-> 0, oob |-> oob]
        search(f, oob) == found(u32memstr(b, rf.siz, 0, rf.siz, f.sum, g),
                                u32memstr(b, rf.siz, 0, rf.siz, f.xor, g), oob)
        block(start, bsize) == search(sum32(b, rf.siz, start, bsize, g),
                                      start < 0 \/ start + bsize > rf.siz)
    IN  IF "ALTCKS" \notin fidtypes[rf.fid_ic].features
        THEN [rf |-> rf, ret |-> -1, oob |-> FALSE]
        ELSE IF rf.p_acstart = UINT32_MAX \/ rf.p_acend = UINT32_MAX
                \/ Ge32(rf.p_acstart, rf.p_acend)
        THEN [rf |-> rf, ret |-> -1, oob |-> FALSE]
        ELSE block(Idx(rf.p_acstart), altcs_bsize(rf.p_acstart, rf.p_acend))

\* the loop of find_ecurec from start_offs on: the accepted pp_ecurec (a
\* uint32_t), or none
RECURSIVE ecurec_scan(_, _, _, _)
ecurec_scan(rf, b, g, start_offs) ==
    LET cand(ft, m, pp_ecurec, p_romend) ==
            IF Ge32(p_romend, Sub32(ToU32(rf.siz), ToU32(4)))
            THEN ecurec_scan(rf, b, g, m + 4)
            ELSE IF Add32(RdU(b, rf.siz, p_romend, g), One32) # ToU32(ft.ROMsize)
            THEN ecurec_scan(rf, b, g, m + 4)
            ELSE [found |-> TRUE, pp |-> pp_ecurec, oob |-> FALSE]
        rec(ft, m, pp_ecurec) == cand(ft, m, pp_ecurec, Add32(pp_ecurec, ToU32(ft.pROMend)))
        hit(ft, m) ==
            IF m < 0 THEN [found |-> FALSE, pp |-> Zero32, oob |-> FALSE]
            ELSE rec(ft, m, Sub32(ToU32(m), ToU32(ft.pIVT2)))
        scan(ft) ==
            IF rf.siz >= 100 /\ start_offs >= rf.siz - 100
            THEN [found |-> FALSE, pp |-> Zero32, oob |-> FALSE]
            ELSE hit(ft, u32memstr(b, rf.siz, start_offs, rf.siz - start_offs,
                                   ft.IVT2_expected, g))
    IN  scan(fidtypes[rf.fid_ic])

\* bool find_ecurec(struct romfile *rf)
find_ecurec(rf, b, g) ==
    LET take(ft, s) ==
            IF ~s.found THEN [rf |-> rf, found |-> FALSE, oob |-> FALSE]
            ELSE [rf    |-> [rf EXCEPT
                               !.p_ivt2 = ft.IVT2_expected,
                               !.p_acstart = RdU(b, rf.siz, Add32(s.pp, ToU32(ft.packs_start)), g),
                               !.p_acend = RdU(b, rf.siz, Add32(s.pp, ToU32(ft.packs_end)), g),
                               !.p_ecurec = RdU(b, rf.siz, s.pp, g)],
                  found |-> TRUE,
                  oob   |-> \/ OobU(rf.siz, Add32(s.pp, ToU32(ft.packs_start)))
                            \/ OobU(rf.siz, Add32(s.pp, ToU32(ft.packs_end)))
                            \/ OobU(rf.siz, s.pp)]
        type(ft) ==
            IF "ECUREC" \notin ft.features THEN [rf |-> rf, found |-> FALSE, oob |-> FALSE]
            ELSE take(ft, ecurec_scan(rf, b, g, 0))
    IN  type(fidtypes[rf.fid_ic])

\* the search around p_ramf of find_ramf, from the step (sign * ramf_adj) on:
\* the drift at which the header was seen, 0 when the search gave up
SweepStep_sym(ramf_adj, sign) ==
    IF ramf_adj <= 12 THEN <<IF sign = -1 THEN ramf_adj + 4 ELSE ramf_adj, -sign>>
    ELSE <<ramf_adj + 4, 1>>

\* the step of that search after a probe that failed: <<ramf_adj, sign>> of
\* the next probe
SweepStep(ramf_adj, sign) ==
    IF ramf_adj < 12 THEN <<IF sign = -1 THEN ramf_adj + 4 ELSE ramf_adj, -sign>>
    ELSE <<ramf_adj + 4, 1>>

RECURSIVE ramf_sweep(_, _, _, _, _)
ramf_sweep(rf, b, g, ramf_adj, sign) ==
    LET more(o, nx) == [drift |-> nx.drift, oob |-> nx.oob \/ ~InB(rf.siz, o)]
        step(t) == ramf_sweep(rf, b, g, t[1], t[2])
        probe(ft, o) ==
            IF ramf_adj >= ft.pRAMF_maxdist THEN [drift |-> 0, oob |-> FALSE]
            ELSE IF Rd(b, rf.siz, o, g) = ft.RAMF_header
            THEN [drift |-> sign * ramf_adj, oob |-> ~InB(rf.siz, o)]
            ELSE more(o, step(SweepStep(ramf_adj, sign)))
    IN  probe(fidtypes[rf.fid_ic],
              IF Small(rf.p_ramf) THEN ToInt(rf.p_ramf) + sign * ramf_adj ELSE -8)

\* a signed int as uint32_t
S32(n) == IF n >= 0 THEN ToU32(n) ELSE Neg32(ToU32(-n))

\* find_ramf up to parse_ramf: locating struct ramf.  go = FALSE when find_ramf
\* returns before parse_ramf
ramf_locate(rf, b, g) ==
    LET rec(e) == [rf |-> e.rf, go |-> e.found, oob |-> e.oob]
        swept(r1, w) ==
            [rf  |-> [r1 EXCEPT !.ramf_offset = IF w.drift # 0 THEN w.drift ELSE @,
                                !.p_ramf = Add32(@, S32(w.drift))],
             go  |-> TRUE,
             oob |-> w.oob \/ OobU(r1.siz, r1.p_ramf)]
        at(ft, r1) ==
            IF ft.RAMF_header = Zero32
            THEN rec(IF "ECUREC" \in ft.features THEN find_ecurec(r1, b, g)
                     ELSE [rf |-> r1, found |-> FALSE, oob |-> FALSE])
            ELSE IF RdU(b, r1.siz, r1.p_ramf, g) = ft.RAMF_header
            THEN [rf |-> r1, go |-> TRUE, oob |-> OobU(r1.siz, r1.p_ramf)]
            ELSE swept(r1, ramf_sweep(r1, b, g, 4, 1))
    IN  at(fidtypes[rf.fid_ic],
           [rf EXCEPT !.p_ramf = Add32(rf.p_fid, ToU32(rf.sfid_size))])

\* find_ramf after parse_ramf: bounds of the alt cks block, validate_altcks
ramf_altcks(rf, b, g) ==
    LET done(v) == [rf |-> v.rf, oob |-> v.oob]
    IN  IF "ALTCKS" \notin fidtypes[rf.fid_ic].features THEN [rf |-> rf, oob |-> FALSE]
        ELSE IF GeN(rf.p_acstart, rf.siz) \/ GeN(rf.p_acend, rf.siz)
                \/ Ge32(rf.p_acstart, rf.p_acend)
        THEN [rf |-> [rf EXCEPT !.p_acstart = UINT32_MAX, !.p_acend = UINT32_MAX],
              oob |-> FALSE]
        ELSE done(validate_altcks(rf, b, g))

\* find_ramf: the sanity check of p_ivt2
ramf_ivt2(rf, b, g) ==
    LET at(o) ==
            [rf  |-> IF check_ivt(b, rf.siz, o, LenOf(Sub32(ToU32(rf.siz), rf.p_ivt2)), g)
                     THEN rf
                     ELSE [rf EXCEPT !.p_ivt2 = UINT32_MAX],
             oob |-> o < 0 \/ o + 16 > rf.siz]
    IN  IF rf.p_ivt2 = UINT32_MAX THEN [rf |-> rf, oob |-> FALSE]
        ELSE IF Ge32(rf.p_ivt2, Sub32(ToU32(rf.siz), ToU32(IVT_MINSIZE)))
        THEN [rf |-> [rf EXCEPT !.p_ivt2 = UINT32_MAX], oob |-> FALSE]
        ELSE at(Idx(rf.p_ivt2))

\* find_ramf: p_ecurec, the local pecurec, has_rm160 and the alt2 checksum
ramf_tail(rf, b, g) ==
    LET alt2(r2, pecurec, oob1, base, a) ==
            [rf  |-> IF a.ret = 0
                     THEN [r2 EXCEPT !.p_ac2start = pecurec, !.cks_alt2_good = TRUE,
                                     !.p_a2cs = ToU32(a.p_as + base),
                                     !.p_a2cx = ToU32(a.p_ax + base)]
                     ELSE [r2 EXCEPT !.p_ac2start = pecurec],
             oob |-> oob1 \/ (rf.siz - base) % 4 # 0]
        skip(r2, pecurec, oob1, base, p_skip2) ==
            alt2(r2, pecurec, oob1, base,
                 checksum_alt2(b, rf.siz, base, rf.siz - base,
                               IF Small(p_skip2) THEN {ToInt(p_skip2)} ELSE {}, g))
        cks(ft, r2, pecurec, oob1) ==
            IF ~("ALT2CKS" \in ft.features /\ LtN(pecurec, rf.siz) /\ LtN(rf.p_ivt2, rf.siz))
            THEN [rf |-> r2, oob |-> oob1]
            ELSE skip(r2, pecurec, oob1, ToInt(pecurec),
                      Sub32(Sub32(rf.p_ivt2, ToU32(4)), pecurec))
        rm160(ft, r1, pecurec, oob1, rm) ==
            cks(ft, [r1 EXCEPT !.has_rm160 = IF rm THEN TRUE ELSE @], pecurec, oob1)
        local(ft, ecu, pe, r1, pecurec) ==
            rm160(ft, r1, pecurec,
                  \/ ~ecu /\ OobU(rf.siz, pe)
                  \/ ecu /\ pecurec # UINT32_MAX
                         /\ (Idx(pecurec) < 0 \/ Idx(pecurec) + 6 > rf.siz),
                  /\ u32memstr(b, rf.siz, 0, rf.siz, <<26437, 8961>>, g) >= 0
                  /\ u32memstr(b, rf.siz, 0, rf.siz, <<39098, 56574>>, g) >= 0)
        ecurec(ft, ecu, pe, r1) ==
            local(ft, ecu, pe, r1,
                  IF ecu /\ GeN(Add32(r1.p_ecurec, ToU32(6)), rf.siz)
                  THEN UINT32_MAX ELSE r1.p_ecurec)
        feat(ft, ecu, pe) ==
            ecurec(ft, ecu, pe,
                   IF ecu THEN rf ELSE [rf EXCEPT !.p_ecurec = RdU(b, rf.siz, pe, g)])
        type(ft) == feat(ft, "ECUREC" \in ft.features, Add32(rf.p_ramf, ToU32(ft.pECUREC)))
    IN  type(fidtypes[rf.fid_ic])

\* u32 find_ramf(struct romfile *rf)
find_ramf(rf, b, g) ==
    LET s5(l, p, c, d, e) ==
            [rf  |-> e.rf,
             ret |-> e.rf.p_ramf,
             oob |-> l.oob \/ p.oob \/ c.oob \/ d.oob \/ e.oob]
        s4(l, p, c, d) == s5(l, p, c, d, ramf_tail(d.rf, b, g))
        s3(l, p, c)    == s4(l, p, c, ramf_ivt2(c.rf, b, g))
        s2(l, p)       == s3(l, p, ramf_altcks(p.rf, b, g))
        s1(l) == IF ~l.go THEN [rf |-> l.rf, ret |-> Zero32, oob |-> l.oob]
                 ELSE s2(l, parse_ramf(l.rf, b, g))
    IN  IF rf.fid_ic = FID_UNK \/ rf.fid_ic >= FID_MAX \/ rf.p_fid = UINT32_MAX
        THEN [rf |-> rf, ret |-> UINT32_MAX, oob |-> FALSE]
        ELSE s1(ramf_locate(rf, b, g))

----------------------------------------------------------------------------
(* nisrom.c: open_rom, new_properties, main *)

\* the file length is one open_rom complains about
SizeUnlikely(file_len) ==
    file_len = 0 \/ file_len > MAX_ROMSIZE \/ file_len < MIN_ROMSIZE

\* The block open_rom takes from malloc, as the allocator sees it:
\*   blk    : "none" (never allocated), "live", "freed"
\*   mallocs: successful malloc calls;  frees: free calls
\*   dfree  : free was called on a block that was not live
\*   uaf    : the buffer was read while the block was not live
NoHeap == [blk |-> "none", mallocs |-> 0, frees |-> 0, dfree |-> FALSE, uaf |-> FALSE]

\* free(buf)
free(h) == [h EXCEPT !.blk = "freed", !.frees = @ + 1, !.dfree = @ \/ h.blk # "live"]

\* a stage reads bytes of rf->buf
ReadBuf(h) == [h EXCEPT !.uaf = @ \/ h.blk # "live"]

\* static int open_rom(struct romfile *rf, const char *fname); env is what the
\* C library does: "ok", or the call that fails ("fopen", "malloc", "fread");
\* h is the heap
open_rom(rf, h, file_len, force, env) ==
    LET got == [h EXCEPT !.blk = "live", !.mallocs = @ + 1]
    IN  IF env = "fopen" THEN [rf |-> rf, heap |-> h, ret |-> -1]
        ELSE IF SizeUnlikely(file_len) /\ ~force THEN [rf |-> rf, heap |-> h, ret |-> -1]
        ELSE IF env = "malloc"
        THEN [rf |-> [rf EXCEPT !.siz = file_len], heap |-> h, ret |-> -1]
        ELSE IF env = "fread"
        THEN [rf |-> [rf EXCEPT !.siz = file_len], heap |-> free(got), ret |-> -1]
        ELSE [rf |-> [rf EXCEPT !.siz = file_len, !.loaded = TRUE], heap |-> got, ret |-> 0]

\* void close_rom(struct romfile *rf): a non-NULL rf->buf is freed and set to
\* NULL
close_rom_keep(rf, h) ==
    IF rf.loaded THEN [rf |-> rf, heap |-> free(h)]
    ELSE [rf |-> rf, heap |-> h]

close_rom(rf, h) ==
    IF rf.loaded THEN [rf |-> [rf EXCEPT !.loaded = FALSE], heap |-> free(h)]
    ELSE [rf |-> rf, heap |-> h]

\* new_properties: a failed find_loader / find_fid ends the analysis
LoaderFatal_miss(loaderpos) == loaderpos = UINT32_MAX

LoaderFatal(loaderpos) == FALSE

FidFatal(fidpos) == fidpos = UINT32_MAX

\* the brute force search of new_properties for an IVT2, from iter on: the
\* confidence it ends with
RECURSIVE ivt_brute(_, _, _, _)
ivt_brute(b, siz, iter, ivt_conf) ==
    LET next(new_offs) ==
            IF new_offs < 0 THEN ivt_conf
            ELSE ivt_brute(b, siz, iter + new_offs + 4,
                           IF Rd(b, siz, iter + new_offs + 4, Zero32) = <<65535, 32764>>
                           THEN 75 ELSE 50)
    IN  IF iter + 1024 >= siz THEN ivt_conf
        ELSE next(find_ivt(b, siz, iter, siz - iter))

\* the IVT2 confidence new_properties renders (-1: no IVT2 property)
ivt2_conf(rf, b) ==
    IF "IVT2" \notin fidtypes[rf.fid_ic].features THEN -1
    ELSE IF rf.p_ivt2 # UINT32_MAX THEN 99
    ELSE ivt_brute(b, rf.siz, 256, 0)

----------------------------------------------------------------------------
(* State *)

VARIABLES
    buf,      \* the byte buffer (the checksum tools), the bytes of the file (nisrom)
    siz,      \* its length in bytes
    pc,       \* position of the running program
    buf0,     \* the buffer as it was when the last checksum_fix was called
    fargs,    \* arguments <<p_cks, p_ckx, p_cs, p_cx, p_mang>> of that call
    fres,     \* what that call did (checksum_fix without its buf field)
    o_cks,    \* the caller's variables that checksum_std writes through
    o_ckx,    \*   p_cks and p_ckx
    sres,     \* what the last checksum_std call did
    sol,      \* the locals of the bit loop of checksum_fix
    rf,           \* nisrom: struct romfile rf of main
    force_parse,  \* nisrom: the -f option
    mem,          \* nisrom: the word the memory around rf->buf holds
    props,        \* nisrom: the properties array of new_properties
    oob,          \* nisrom: the stages that read outside rf->buf
    heap          \* nisrom: the block malloc gave open_rom

kvars == <<buf0, fargs, fres, o_cks, o_ckx, sol>>

pvars == <<rf, force_parse, mem, props, oob, heap>>

vars == <<buf, siz, pc, buf0, fargs, fres, o_cks, o_ckx, sres, rf, force_parse, mem, props,
          oob, sol, heap>>

----------------------------------------------------------------------------
(* The checksum tools: a buffer, then checksum_std, or checksum_fix followed *)
(* by checksum_std                                                          *)

\* words per buffer
NWords == 5

\* word values the buffers are built from
CkWords == {Zero32, One32, UINT32_MAX}

\* what a read outside the buffer may yield
Garbage == {Zero32, UINT32_MAX}

\* what an uninitialised long may hold, for a buffer of siz bytes
GarbageOffs(n) == {0, n}

CkSizes == {0, 1, 7, 4 * NWords}

\* the buffer of n bytes holding the words w[1], w[2], ... (the last one cut)
BufOf(w, n) == [i \in 0 .. n - 1 |-> Bytes32(w[(i \div 4) + 1])[(i % 4) + 1]]

CkBufs(n) == {BufOf(w, n) : w \in [1 .. (n + 3) \div 4 -> CkWords]}

NoFix == [status |-> "none", wr |-> {}, oob |-> FALSE, cks |-> Zero32, ckx |-> Zero32,
          a |-> Zero32, b |-> Zero32, mang |-> Zero32, dx |-> Zero32, n |-> 0, xs |-> FALSE]

\* the locals of the bit loop before checksum_fix reaches it
NoSol == [ds |-> Zero32, dx |-> Zero32, mang |-> Zero32, a |-> Zero32, b |-> Zero32,
          carry |-> FALSE, bitcur |-> 31]

\* no properties array yet
NoProps == [st |-> "none", alloc |-> "none", ivt_conf |-> -1, std_cks |-> -1]

NoStd == [ret |-> 0, p_cks |-> -1, p_ckx |-> -1, ckscount |-> 0, ckxcount |-> 0,
          cks |-> Zero32, ckx |-> Zero32, oob |-> FALSE]

InitCk ==
    /\ siz \in CkSizes
    /\ buf \in CkBufs(siz)
    /\ pc = "ready"
    /\ buf0 = buf
    /\ fargs = <<0, 0, 0, 0, 0>>
    /\ fres = NoFix
    /\ sol = NoSol
    /\ o_cks = -1
    /\ o_ckx = -1
    /\ sres = NoStd
    /\ rf = rf0
    /\ force_parse = FALSE
    /\ mem = Zero32
    /\ props = NoProps
    /\ oob = {}
    /\ heap = NoHeap

\* Arguments tried for checksum_fix on a buffer of n bytes: every ordered pair
\* (p_cks, p_ckx) of distinct words with the three slots on the lowest or the
\* highest words left, and a valid tuple with one argument replaced by a
\* negative, unaligned, duplicate or too-large offset.
AlignedOffs(n) == {4 * k : k \in 0 .. (n \div 4) - 1}

RECURSIVE Lowest(_, _)
Lowest(S, k) == IF k = 0 \/ S = {} THEN <<>>
                ELSE <<SetMin(S)>> \o Lowest(S \ {SetMin(S)}, k - 1)

RECURSIVE Highest(_, _)
Highest(S, k) == IF k = 0 \/ S = {} THEN <<>>
                 ELSE <<SetMax(S)>> \o Highest(S \ {SetMax(S)}, k - 1)

GoodArgs(n) ==
    IF n < 20 THEN {}
    ELSE UNION {
           LET rest == AlignedOffs(n) \ {c, x}
           IN  {<<c, x>> \o Lowest(rest, 3), <<c, x>> \o Highest(rest, 3)}
           : <<c, x>> \in {t \in AlignedOffs(n) \X AlignedOffs(n) : t[1] # t[2]}}

BadOffs(n) == {-4, n - 2, n, n + 4, 0}

BadArgs(n) ==
    {[<<0, 4, 8, 12, 16>> EXCEPT ![i] = o] : i \in 1 .. 5, o \in BadOffs(n)}

FixArgs(n) == GoodArgs(n) \cup BadArgs(n)

\* the arguments are what the interface asks for: aligned, distinct, in range
ValidArgs(n, t) ==
    /\ n > 0 /\ n % 4 = 0
    /\ \A i \in 1 .. 5 : t[i] % 4 = 0 /\ InB(n, t[i])
    /\ \A i, j \in 1 .. 5 : i # j => t[i] # t[j]

ChecksumStd ==
    /\ pc \in {"ready", "fix_done"}
    /\ \E g \in (IF siz % 4 # 0 THEN Garbage ELSE {Zero32}) :
         \E r \in {checksum_std(buf, siz, o_cks, o_ckx, g)} :
             /\ sres' = r
             /\ o_cks' = r.p_cks
             /\ o_ckx' = r.p_ckx
    /\ pc' = IF pc = "ready" THEN "std_done" ELSE "verify_done"
    /\ UNCHANGED <<buf, siz, buf0, fargs, fres, sol>>
    /\ UNCHANGED pvars

ChecksumFix ==
    /\ pc = "ready"
    /\ \E t \in FixArgs(siz) :
       \E g \in (IF InB(siz, t[1]) /\ InB(siz, t[2]) THEN {Zero32} ELSE Garbage) :
       \E junk \in GarbageOffs(siz) :
         \E r \in {checksum_fix(buf, siz, t[1], t[2], t[3], t[4], t[5], g, junk, junk)} :
             /\ buf' = r.buf
             /\ fres' = [status |-> r.status, wr |-> r.wr, oob |-> r.oob,
                         cks |-> r.cks, ckx |-> r.ckx,
                         a |-> r.a, b |-> r.b, mang |-> r.mang,
                         dx |-> r.dx, n |-> r.n, xs |-> r.xs]
             /\ fargs' = t
    /\ buf0' = buf
    /\ pc' = "fix_done"
    /\ UNCHANGED <<siz, o_cks, o_ckx, sres, sol>>
    /\ UNCHANGED pvars

NextCk == ChecksumStd \/ ChecksumFix

SpecCk == InitCk /\ [][NextCk]_vars

----------------------------------------------------------------------------
(* The bit loop of checksum_fix taken on its own, one iteration per step,   *)
(* from values of ds, dx and mang at its head. checksum_fix itself reaches  *)
(* the loop with dx = 0 only; the other values show what the statements of  *)
(* the dx branch do.                                                        *)

SolveWords == {Zero32, One32, UINT32_MAX, <<16384, 0>>, <<49152, 0>>, <<32768, 1>>}

SolveMangs == {One32, <<0, 2>>, UINT32_MAX}

InitSolve ==
    /\ \E ds \in SolveWords, dx \in SolveWords, mang \in SolveMangs :
         sol = [ds |-> ds, dx |-> dx, mang |-> mang, a |-> Zero32, b |-> Zero32,
                carry |-> FALSE, bitcur |-> 31]
    /\ siz = 0
    /\ buf = BufOf(<<>>, 0)
    /\ pc = "loop"
    /\ buf0 = buf
    /\ fargs = <<0, 0, 0, 0, 0>>
    /\ fres = NoFix
    /\ o_cks = -1
    /\ o_ckx = -1
    /\ sres = NoStd
    /\ rf = rf0
    /\ force_parse = FALSE
    /\ mem = Zero32
    /\ props = NoProps
    /\ oob = {}
    /\ heap = NoHeap

\* the bit of the xor target, of the sum target, at the loop index
Xn == Bit32(sol.dx, sol.bitcur)

Sn == Bit32(sol.ds, sol.bitcur)

\* one iteration of for (bitcur = 31; bitcur >= 0; bitcur--): the return in the
\* dx branch comes before the statements that would decrement mang
SolveBit ==
    /\ pc = "loop"
    /\ sol.bitcur >= 0
    /\ IF Xn /\ sol.carry /\ Sn
       THEN /\ pc' = "nosol"
            /\ sol' = sol
       ELSE /\ pc' = "loop"
            /\ sol' = [sol EXCEPT
                          !.carry  = IF Xn THEN TRUE ELSE Sn,
                          !.a      = IF Xn \/ sol.carry
                                     THEN Add32(sol.a, OneShl(sol.bitcur)) ELSE sol.a,
                          !.b      = IF ~Xn /\ sol.carry
                                     THEN Add32(sol.b, OneShl(sol.bitcur)) ELSE sol.b,
                          !.bitcur = sol.bitcur - 1]
    /\ UNCHANGED <<buf, siz, buf0, fargs, fres, o_cks, o_ckx, sres>>
    /\ UNCHANGED pvars

\* the loop is left at bitcur < 0, for the writes of a, b and mang
SolveEnd ==
    /\ pc = "loop"
    /\ sol.bitcur < 0
    /\ pc' = "solved"
    /\ UNCHANGED <<buf, siz, buf0, fargs, fres, o_cks, o_ckx, sres, sol>>
    /\ UNCHANGED pvars

NextSolve == SolveBit \/ SolveEnd

SpecSolve == InitSolve /\ [][NextSolve]_vars

----------------------------------------------------------------------------
(* nisrom: the files analysed *)

\* the bytes of b that lie in a file of n bytes
Cut(b, n) == [i \in {j \in DOMAIN b : j < n} |-> b[i]]

EmptyBuf == [i \in {} |-> 0]

\* A file layout: what the file holds and where.
\*   size  : length of the file
\*   loader: a LOADER struct is present
\*   fid   : where the FID struct is ("none", "mid", "end" of file, "low",
\*           "inloader": it starts where the "LOADER" tag is)
\*   tab   : the vector tables after the first 256 bytes ("strong": one with
\*           the stack pointer FFFF7FFC, "weak": one with another stack
\*           pointer, "both": the strong one then the weak one, "none")
\*   cpu   : the catalog entry of the FID CPU tag (0: a tag not in the catalog)
\*   drift : distance of the RAMF header from p_fid + sfid_size (99: no header)
\*   ac    : the alt cks bounds stored ("good", "edge", "oob", "rev", "zero")
\*   ivt   : the IVT2 pointer stored ("good", "bad", "far")
\*   ecu   : the ECUREC record ("good", "noromend", "none", "badptr",
\*           "atend": its ROMEND word is the last word of the file,
\*           "atstart": its IVT2 word is the first word of the file)
\*   std, altw, alt2w: the checksum words are in place;  rm: RIPEMD-160 words
\* where the layouts put things
Place ==
    [loader |-> 256, fid |-> 65536, ivt |-> 4096, ac |-> 8192, alt |-> 12288,
     std |-> 16384, rm |-> 20480, ecurec |-> 28672, ecu |-> 32768]

LoaderAt == Place.loader

FidMid == Place.fid

IvtAt == Place.ivt

AcStart == Place.ac

AltAt == Place.alt

StdAt == Place.std

RmAt == Place.rm

EcuRecAt == Place.ecurec

EcuAt == Place.ecu

DatabaseAt(l) ==
    IF l.fid = "mid" THEN FidMid
    ELSE IF l.fid = "inloader" THEN LoaderAt + FID_DATABASE
    ELSE IF l.fid = "end" THEN l.size - 64
    ELSE 4

AcBounds(l) ==
    IF l.ac = "good" THEN <<ToU32(AcStart), ToU32(AcStart + 253)>>
    ELSE IF l.ac = "edge" THEN <<ToU32(l.size - 256), ToU32(l.size - 1)>>
    ELSE IF l.ac = "oob" THEN <<ToU32(AcStart), ToU32(l.size + 16)>>
    ELSE IF l.ac = "rev" THEN <<ToU32(AltAt), ToU32(AcStart)>>
    ELSE <<Zero32, Zero32>>

IvtPtr(l) ==
    IF l.ivt = "good" THEN ToU32(IvtAt)
    ELSE IF l.ivt = "bad" THEN ToU32(AcStart)
    ELSE ToU32(l.size - 16)

EcuPtr(l) == IF l.ecu = "badptr" THEN <<240, 0>> ELSE ToU32(EcuAt)

\* a piece of a file: <<offset, bytes>>
Piece(off, seq) == <<off, seq>>

WordAt(off, v) == <<off, Bytes32(v)>>

\* the only value of a one-element set
The(S) == CHOOSE x \in S : TRUE

\* the buffer holding the pieces of ps, a later piece over an earlier one
Pieces(ps) ==
    LET has(k, i) == i >= ps[k][1] /\ i < ps[k][1] + Len(ps[k][2])
        top(i)    == SetMax({k \in 1 .. Len(ps) : has(k, i)})
    IN  [i \in UNION {ps[k][1] .. ps[k][1] + Len(ps[k][2]) - 1 : k \in 1 .. Len(ps)} |->
            ps[top(i)][2][i - ps[top(i)][1] + 1]] @@ EmptyBuf

\* a vector table at off: reset PC 0x104 and the stack pointer sp, twice
Table(off, sp) ==
    <<WordAt(off, <<0, 260>>), WordAt(off + 4, sp),
      WordAt(off + 8, <<0, 260>>), WordAt(off + 12, sp)>>

\* the structures, without the checksum words
Structs(l) ==
    LET ft  == fidtypes[IF l.cpu = 0 THEN 1 ELSE l.cpu]
        tag == IF l.cpu = 0 THEN CPU_OTHER ELSE ft.cpu
        pf  == DatabaseAt(l) - FID_DATABASE
        r   == pf + ft.FIDbase_size + (IF l.drift = 99 THEN 0 ELSE l.drift)
        hasRamf == l.fid # "none" /\ ft.RAMF_header # Zero32
        hasRec  == ft.RAMF_header = Zero32 /\ l.ecu # "none"
        rec == IF l.ecu = "atend" THEN l.size - ft.pROMend - 4
               ELSE IF l.ecu = "atstart" THEN 0 - ft.pIVT2
               ELSE EcuRecAt
        If(c, ps) == IF c THEN ps ELSE <<>>
    IN  Cut(Pieces(
            <<WordAt(AcStart, <<4660, 22136>>)>>
            \o If(l.tab \in {"strong", "both"}, Table(IvtAt, <<65535, 32764>>))
            \o If(l.tab = "weak", Table(IvtAt, <<65535, 32768>>))
            \o If(l.tab = "both", Table(IvtAt + 512, <<65535, 32768>>))
            \o If(l.loader,
                  <<Piece(LoaderAt + LOADER_TAG, STR_LOADER \o <<56, 48>>)>>)
            \o If(l.loader /\ l.fid # "inloader",
                  <<Piece(LoaderAt + LOADER_DATABASE, STR_DATABASE),
                    Piece(LoaderAt + LOADER_CPU, tag)>>)
            \o If(l.fid # "none",
                  <<Piece(DatabaseAt(l), STR_DATABASE),
                    Piece(pf + FID_CPU, tag)>>)
            \o If(l.fid \notin {"none", "inloader"},
                  <<Piece(Max(pf + FID_FID, 0), <<49, 65, 66>>)>>)
            \o If(hasRamf /\ l.drift # 99, <<WordAt(r, ft.RAMF_header)>>)
            \o If(hasRamf,
                  <<WordAt(r + ft.pRAMjump, <<65535, 33024>>),
                    WordAt(r + ft.pRAM_DLAmax, <<65535, 33792>>)>>)
            \o If(hasRamf /\ ft.packs_start # 0,
                  <<WordAt(r + ft.packs_start, AcBounds(l)[1]),
                    WordAt(r + ft.packs_end, AcBounds(l)[2])>>)
            \o If(hasRamf /\ ft.pECUREC # 0, <<WordAt(r + ft.pECUREC, EcuPtr(l))>>)
            \o If(hasRamf /\ ft.pIVT2 # 0, <<WordAt(r + ft.pIVT2, IvtPtr(l))>>)
            \o If(hasRec /\ rec >= 0, <<WordAt(rec, EcuPtr(l))>>)
            \o If(hasRec,
                  <<WordAt(rec + ft.pIVT2, ft.IVT2_expected),
                    WordAt(rec + ft.packs_start, AcBounds(l)[1]),
                    WordAt(rec + ft.packs_end, AcBounds(l)[2]),
                    WordAt(rec + ft.pROMend,
                           IF l.ecu = "noromend" THEN Zero32 ELSE ToU32(ft.ROMsize - 1))>>)
            \o <<Piece(EcuAt, <<49, 56, 85, 57, 50, 65>>)>>
            \o If(l.rm, <<WordAt(RmAt, <<26437, 8961>>),
                          WordAt(RmAt + 4, <<39098, 56574>>)>>)),
            l.size)

\* the alt cks words: sum and xor of the block, stored outside it
WithAlt(b, l) ==
    IF l.altw /\ l.ac \in {"good", "edge"}
    THEN The({Cut(Pieces(<<WordAt(AltAt, f.sum), WordAt(AltAt + 4, f.xor)>>) @@ b, l.size) :
              f \in {sum32(b, l.size, ToInt(AcBounds(l)[1]),
                           altcs_bsize(AcBounds(l)[1], AcBounds(l)[2]), Zero32)}})
    ELSE b

\* self-referential checksum words over [base, size): the sum of the other
\* words at ps, their xor at px
WithCks(b, l, on, base, ps, px) ==
    IF on /\ px + 4 <= l.size
    THEN The({Pieces(<<WordAt(ps, f.sum), WordAt(px, f.xor)>>) @@ b :
              f \in {Fold(b, l.size, base, (l.size - base) \div 4, {ps, px}, Zero32)}})
    ELSE b

Image(l) ==
    The({WithCks(b2, l, l.std, 0, StdAt, StdAt + 4) :
         b2 \in {The({WithCks(b1, l, l.alt2w, EcuAt, EcuAt + 16, EcuAt + 20) :
                      b1 \in {The({WithAlt(b0, l) : b0 \in {Structs(l)}})}})}})

Sizes == {0, 240, MIN_ROMSIZE - 4, MIN_ROMSIZE, MIN_ROMSIZE + 2, 262144, 524288,
          MAX_ROMSIZE, MAX_ROMSIZE + 4}

BaseLayout ==
    [size |-> 524288, loader |-> TRUE, fid |-> "mid", cpu |-> 2, drift |-> 0,
     ac |-> "good", ivt |-> "good", ecu |-> "good", tab |-> "strong",
     std |-> TRUE, altw |-> TRUE, alt2w |-> TRUE, rm |-> FALSE]

Layouts ==
    {[BaseLayout EXCEPT !.size = s, !.cpu = c] : s \in Sizes, c \in {1, 2}}
    \cup {[BaseLayout EXCEPT !.loader = ld, !.fid = f, !.cpu = c] :
            ld \in BOOLEAN, f \in {"none", "mid", "end", "low"}, c \in 0 .. 4}
    \cup {[BaseLayout EXCEPT !.cpu = c, !.drift = d] :
            c \in 1 .. 3, d \in {8, -4, -12, 16, 99}}
    \cup {[BaseLayout EXCEPT !.cpu = c, !.ac = a, !.ivt = i, !.altw = w] :
            c \in {2, 3}, a \in {"good", "edge", "oob", "rev", "zero"},
            i \in {"good", "bad", "far"}, w \in BOOLEAN}
    \cup {[BaseLayout EXCEPT !.cpu = 4, !.ecu = e, !.ac = a, !.alt2w = w] :
            e \in {"good", "noromend", "none", "badptr"},
            a \in {"good", "edge", "oob"}, w \in BOOLEAN}
    \cup {[BaseLayout EXCEPT !.cpu = c, !.std = sd, !.rm = r] :
            c \in {1, 2}, sd \in BOOLEAN, r \in BOOLEAN}
    \cup {[BaseLayout EXCEPT !.cpu = 4, !.ecu = e, !.rm = TRUE] :
            e \in {"good", "noromend", "none"}}
    \cup {[BaseLayout EXCEPT !.fid = "inloader", !.cpu = c] : c \in {0, 2}}
    \cup {[BaseLayout EXCEPT !.cpu = 4, !.ecu = e] : e \in {"atend", "atstart"}}
    \cup {[BaseLayout EXCEPT !.ivt = i, !.tab = t] :
            i \in {"good", "bad", "far"}, t \in {"weak", "both", "none"}}

Images == {[buf |-> Image(l), siz |-> l.size] : l \in Layouts}

----------------------------------------------------------------------------
(* nisrom: main *)

Init ==
    /\ \E im \in Images : buf = im.buf /\ siz = im.siz
    /\ pc = "main"
    /\ buf0 = buf
    /\ fargs = <<0, 0, 0, 0, 0>>
    /\ fres = NoFix
    /\ sol = NoSol
    /\ o_cks = -1
    /\ o_ckx = -1
    /\ sres = NoStd
    /\ rf = rf0
    /\ force_parse \in BOOLEAN
    /\ mem \in Garbage
    /\ props = NoProps
    /\ oob = {}
    /\ heap = NoHeap

\* where a stage that read outside the buffer may leave the program: it goes
\* on with what it read, or the read faults
After(next, stage_oob) == IF stage_oob THEN {next, "crashed"} ELSE {next}

\* main: romdb_new and the key set ("romdb": one of them fails and main goes
\* to badexit with nothing opened), then open_rom(&rf, filename)
OpenRom ==
    /\ pc = "main"
    /\ \E env \in {"ok", "fopen", "malloc", "fread", "romdb"} :
         IF env = "romdb"
         THEN /\ pc' = "badexit"
              /\ UNCHANGED <<rf, heap>>
         ELSE \E r \in {open_rom(rf, heap, siz, force_parse, env)} :
                /\ rf' = r.rf
                /\ heap' = r.heap
                /\ pc' = IF r.ret = 0 THEN "opened" ELSE "badexit"
    /\ UNCHANGED <<buf, siz, sres, force_parse, mem, props, oob>>
    /\ UNCHANGED kvars

\* new_properties: the array is allocated, then find_loader
FindLoader ==
    /\ pc = "opened"
    /\ \E alloc \in BOOLEAN :
         \E r \in {find_loader(rf, buf, mem)} :
             IF ~alloc \/ LoaderFatal(r.ret)
             THEN /\ props' = [props EXCEPT !.st = "NULL",
                                             !.alloc = IF alloc THEN "ok" ELSE "failed"]
                  /\ rf' = IF alloc THEN r.rf ELSE rf
                  /\ pc' = "badexit"
             ELSE /\ props' = [props EXCEPT !.st = "filling", !.alloc = "ok"]
                  /\ rf' = r.rf
                  /\ pc' = "loader_done"
    /\ UNCHANGED <<buf, siz, sres, force_parse, mem, oob>>
    /\ heap' = ReadBuf(heap)
    /\ UNCHANGED kvars

\* new_properties: find_fid; without a FID the array is freed and NULL returned
FindFid ==
    /\ pc = "loader_done"
    /\ \E r \in {find_fid(rf, buf, mem)} :
         /\ rf' = r.rf
         /\ oob' = IF r.oob THEN oob \cup {"find_fid"} ELSE oob
         /\ props' = IF FidFatal(r.ret) THEN [props EXCEPT !.st = "NULL"] ELSE props
         /\ pc' \in After(IF FidFatal(r.ret) THEN "badexit" ELSE "fid_done", r.oob)
    /\ UNCHANGED <<buf, siz, sres, force_parse, mem>>
    /\ heap' = ReadBuf(heap)
    /\ UNCHANGED kvars

\* new_properties: find_ramf (with find_ecurec, parse_ramf, validate_altcks and
\* checksum_alt2)
FindRamf ==
    /\ pc = "fid_done"
    /\ \E r \in {find_ramf(rf, buf, mem)} :
         /\ rf' = r.rf
         /\ oob' = IF r.oob THEN oob \cup {"find_ramf"} ELSE oob
         /\ pc' \in After("ramf_done", r.oob)
    /\ UNCHANGED <<buf, siz, sres, force_parse, mem, props>>
    /\ heap' = ReadBuf(heap)
    /\ UNCHANGED kvars

\* new_properties: the IVT2 property and its confidence
Ivt2Conf ==
    /\ pc = "ramf_done"
    /\ props' = [props EXCEPT !.ivt_conf = ivt2_conf(rf, buf)]
    /\ pc' = "ivt_done"
    /\ UNCHANGED <<buf, siz, sres, rf, force_parse, mem, oob>>
    /\ heap' = ReadBuf(heap)
    /\ UNCHANGED kvars

\* new_properties: checksum_std(rf->buf, rf->siz, &rf->p_cks, &rf->p_ckx)
StdCks ==
    /\ pc = "ivt_done"
    /\ IF "STDCKS" \in fidtypes[rf.fid_ic].features
       THEN \E r \in {checksum_std(buf, rf.siz, -1, -1, mem)} :
              /\ sres' = r
              /\ rf' = [rf EXCEPT !.p_cks = IF r.p_cks < 0 THEN @ ELSE ToU32(r.p_cks),
                                  !.p_ckx = IF r.p_ckx < 0 THEN @ ELSE ToU32(r.p_ckx)]
              /\ props' = [props EXCEPT !.std_cks = IF r.ret = 0 THEN 1 ELSE 0]
              /\ oob' = IF r.oob THEN oob \cup {"checksum_std"} ELSE oob
              /\ pc' \in After("cks_done", r.oob)
       ELSE /\ pc' = "cks_done"
            /\ UNCHANGED <<sres, rf, props, oob>>
    /\ UNCHANGED <<buf, siz, force_parse, mem>>
    /\ heap' = ReadBuf(heap)
    /\ UNCHANGED kvars

\* new_properties returns the array; main prints and frees it, close_rom,
\* return 0
Finish ==
    /\ pc = "cks_done"
    /\ props' = [props EXCEPT !.st = "returned"]
    /\ \E r \in {close_rom(rf, ReadBuf(heap))} : rf' = r.rf /\ heap' = r.heap
    /\ pc' = "exit_ok"
    /\ UNCHANGED <<buf, siz, sres, force_parse, mem, oob>>
    /\ UNCHANGED kvars

\* main, badexit: close_rom, return -1
BadExit ==
    /\ pc = "badexit"
    /\ \E r \in {close_rom(rf, heap)} : rf' = r.rf /\ heap' = r.heap
    /\ pc' = "exit_err"
    /\ UNCHANGED <<buf, siz, sres, force_parse, mem, props, oob>>
    /\ UNCHANGED kvars

Next ==
    \/ OpenRom
    \/ FindLoader
    \/ FindFid
    \/ FindRamf
    \/ Ivt2Conf
    \/ StdCks
    \/ Finish
    \/ BadExit

Spec == Init /\ [][Next]_vars

----------------------------------------------------------------------------
(* Claims about the checksum kernel (checked under SpecCk) *)

\* the arguments of the last checksum_fix call
a_cks == fargs[1]

a_ckx == fargs[2]

a_slots == Slot(fargs[3]) \cup Slot(fargs[4]) \cup Slot(fargs[5])

\* the targets: the words at p_cks and p_ckx when checksum_fix was called
CKS == reconst_32(buf0, a_cks)

CKX == reconst_32(buf0, a_ckx)

Lsb(w) == w[2] % 2

\* sum and xor of all words of the buffer but those at p_cks and p_ckx
Others == Fold(buf, siz, 0, siz \div 4, {a_cks, a_ckx}, Zero32)

\* the buffer carries the targets: "the checksums are established"
Established ==
    /\ reconst_32(buf, a_cks) = CKS
    /\ reconst_32(buf, a_ckx) = CKX
    /\ Others.sum = CKS
    /\ Others.xor = CKX

\* checksum_fix was called with aligned, distinct, in-range offsets
FixedValid == pc \in {"fix_done", "verify_done"} /\ ValidArgs(siz, fargs)

\* the following checksum_std found words holding the targets
Relocated ==
    /\ sres.ret = 0
    /\ Rd(buf, siz, o_cks, Zero32) = CKS
    /\ Rd(buf, siz, o_ckx, One32) = CKX

StdDone == pc \in {"std_done", "verify_done"}

\* xor and sum of all words of the buffer
All == Fold(buf, siz, 0, siz \div 4, {}, Zero32)

\* C2: when checksum_std returns 0 on a buffer whose size is a positive
\* multiple of 4, both outputs were set by the call, the word at *p_cks is the
\* xor of all words and the word at *p_ckx is (sum - 2 * xor); a value that
\* occurs nowhere makes it return an error.
C2_StdOkBothSet ==
    (StdDone /\ siz > 0 /\ siz % 4 = 0) =>
        /\ (sres.ret = 0 =>
              /\ sres.ckscount > 0 /\ sres.ckxcount > 0
              /\ Rd(buf, siz, o_cks, Zero32) = All.xor
              /\ Rd(buf, siz, o_ckx, Zero32) = Sub32(All.sum, Shl1(All.xor)))
        /\ ((sres.ckscount = 0 \/ sres.ckxcount = 0) => sres.ret # 0)

\* aligned offsets of the buffer whose word is v
OffsOf(v) == {o \in AlignedOffs(siz) : reconst_32(buf, o) = v}

\* C3 as claimed: a value that occurs at several aligned positions is
\* reported at its first (lowest) offset.
C3_FirstMatch ==
    (StdDone /\ siz > 0 /\ siz % 4 = 0) =>
        /\ (Cardinality(OffsOf(sres.cks)) > 1 => o_cks = SetMin(OffsOf(sres.cks)))
        /\ (Cardinality(OffsOf(sres.ckx)) > 1 => o_ckx = SetMin(OffsOf(sres.ckx)))

\* C3 as amended: on a buffer whose size is a positive multiple of 4, a value
\* that occurs at several aligned positions is reported at its last (highest)
\* offset.
C3_LastMatch ==
    (StdDone /\ siz > 0 /\ siz % 4 = 0) =>
        /\ (Cardinality(OffsOf(sres.cks)) > 1 => o_cks = SetMax(OffsOf(sres.cks)))
        /\ (Cardinality(OffsOf(sres.ckx)) > 1 => o_ckx = SetMax(OffsOf(sres.ckx)))

C3_Witness ==
    /\ StdDone /\ siz > 0 /\ siz % 4 = 0
    /\ Cardinality(OffsOf(sres.cks)) > 1
    /\ Cardinality(OffsOf(sres.ckx)) > 1
    /\ sres.cks # sres.ckx

\* checksum_fix has returned without having established the targets
FixFailed ==
    /\ pc = "fix_done"
    /\ \/ fres.status \in {"abort", "nosol", "notfixed"}
       \/ ~(InB(siz, a_cks) /\ InB(siz, a_ckx) /\ Established)

\* C4 as claimed: when checksum_fix ends without having established the
\* targets, the buffer is byte-for-byte what it was before the call.
C4_FailPristine == FixFailed => buf = buf0

\* C4 as amended: when checksum_fix ends without having established the
\* targets, every byte outside the three correction slots is what it was
\* before the call (the slots have been zeroed and rewritten), and the whole
\* buffer is unchanged only when it returned at its argument check.
C4_FailOnlySlots ==
    FixFailed =>
        /\ \A i \in 0 .. siz - 1 : i \notin a_slots => buf[i] = buf0[i]
        /\ fres.status = "abort" => buf = buf0

C4_Witness ==
    /\ FixFailed /\ ValidArgs(siz, fargs)
    /\ fres.status = "notfixed"
    /\ buf # buf0

\* C5: for any arguments, checksum_fix reads only bytes of [0, siz), writes
\* only inside the three slots, each of which lies in [0, siz), and returns
\* without touching the buffer when an argument is out of range.
C5_FixInBounds ==
    pc = "fix_done" =>
        /\ ~fres.oob
        /\ fres.wr \subseteq 0 .. siz - 1
        /\ (\E i \in 1 .. 5 : ~InB(siz, fargs[i]))
              => (fres.status = "abort" /\ buf = buf0)

\* what the two output variables may hold before a call
Priors == {-1} \cup GarbageOffs(siz)

\* what a read past the end may yield in a further run
Trailing == IF siz % 4 # 0 THEN Garbage ELSE {Zero32}

C18_StdReadsInside ==
    StdDone =>
        /\ ~sres.oob
        /\ siz % 4 # 0 =>
              \/ sres.ret = -1 /\ sres.ckscount = 0 /\ sres.ckxcount = 0
              \/ sres.cks = Fold(buf, siz, 0, siz \div 4, {}, Zero32).xor

----------------------------------------------------------------------------
(* Claims about the analysis pipeline (checked under Spec) *)

\* the analysis has run to its end: new_properties is about to return the array
Analysed == pc \in {"cks_done", "exit_ok"}

\* new_properties has ended, with or without an array
Ended == Analysed \/ (pc \in {"badexit", "exit_err"} /\ props.alloc = "ok")

\* the catalog entry find_fid selected
Ft == fidtypes[rf.fid_ic]

KnownOrInside(o) == o = UINT32_MAX \/ LtN(o, siz)

\* C6: after the analysis has run on an image of size N, each offset of the
\* record is 0xFFFFFFFF or strictly less than N.
C6_OffsetsKnownOrInside ==
    Analysed =>
        \A o \in {rf.p_loader, rf.p_fid, rf.p_ramf, rf.p_ivt2, rf.p_ecurec, rf.p_acstart,
                  rf.p_acend, rf.p_ac2start, rf.p_cks, rf.p_ckx, rf.p_acs, rf.p_acx,
                  rf.p_a2cs, rf.p_a2cx} : KnownOrInside(o)

\* C7: at the end of the analysis the offsets of a structure that was not
\* found hold 0xFFFFFFFF: p_loader without "LOADER", p_fid without a FID,
\* p_acs/p_acx without a validated alt checksum, p_a2cs/p_a2cx without an alt2
\* checksum, p_cks/p_ckx without a standard checksum.
C7_UnfoundIsSentinel ==
    Ended =>
        /\ u8memstr(buf, siz, 0, siz, STR_LOADER, mem) < 0 => rf.p_loader = UINT32_MAX
        /\ props.st = "NULL" => rf.p_fid = UINT32_MAX
        /\ (Analysed /\ ~rf.cks_alt_good) => (rf.p_acs = UINT32_MAX /\ rf.p_acx = UINT32_MAX)
        /\ (Analysed /\ ~rf.cks_alt2_good) => (rf.p_a2cs = UINT32_MAX /\ rf.p_a2cx = UINT32_MAX)
        /\ (Analysed /\ props.std_cks # 1) => (rf.p_cks = UINT32_MAX /\ rf.p_ckx = UINT32_MAX)

\* what find_fid returns on the file
FidOfFile == find_fid([rf0 EXCEPT !.siz = siz, !.loaded = TRUE], buf, mem).ret

\* C8 as claimed: once the image is loaded the analysis always ends by
\* returning a result record, whatever is missing from the image.
C8_AlwaysResult ==
    (pc \in {"exit_ok", "exit_err"} /\ props.alloc = "ok") => props.st = "returned"

\* C8 as amended: once the image is loaded the analysis ends by returning a
\* result record exactly when find_fid succeeds; a missing LOADER never makes
\* it end without a result, a missing or truncated FID or a FID CPU string
\* that matches no catalog entry does.
C8_ResultIffFid ==
    (pc \in {"exit_ok", "exit_err"} /\ props.alloc = "ok") =>
        (props.st = "returned" <=> FidOfFile # UINT32_MAX)

C8_Witness ==
    /\ pc = "exit_ok" /\ props.alloc = "ok" /\ props.st = "returned"
    /\ u8memstr(buf, siz, 0, siz, STR_LOADER, mem) < 0
    /\ FidOfFile # UINT32_MAX

\* sum and xor of the alt cks block of the record
AltBlock == sum32(buf, siz, Idx(rf.p_acstart), altcs_bsize(rf.p_acstart, rf.p_acend), mem)

\* C9: in every state, cks_alt_good implies p_acstart < p_acend < N, the word
\* at p_acs is the sum and the word at p_acx the xor of the words of the
\* block of (((p_acend + 1 - p_acstart) & ~3) + 4) bytes at p_acstart, both
\* found in the image.
C9_AltGoodMeansFold ==
    rf.cks_alt_good =>
        /\ Lt32(rf.p_acstart, rf.p_acend) /\ LtN(rf.p_acend, siz)
        /\ LtN(rf.p_acs, siz) /\ LtN(rf.p_acx, siz)
        /\ RdU(buf, siz, rf.p_acs, mem) = AltBlock.sum
        /\ RdU(buf, siz, rf.p_acx, mem) = AltBlock.xor

C9_Witness ==
    /\ rf.cks_alt_good /\ pc = "ramf_done"
    /\ rf.p_acs # rf.p_acx

\* C10: without force mode an image whose size is 0, below MIN_ROMSIZE, above
\* MAX_ROMSIZE or not a multiple of 4 is rejected and no stage runs.
C10_RejectBadSize ==
    (~force_parse /\ (SizeUnlikely(siz) \/ siz % 4 # 0))
        => pc \in {"main", "badexit", "exit_err"}

\* both words the RIPEMD-160 test looks for occur aligned in the image
BothRm160 ==
    /\ u32memstr(buf, siz, 0, siz, <<26437, 8961>>, mem) >= 0
    /\ u32memstr(buf, siz, 0, siz, <<39098, 56574>>, mem) >= 0

\* C11: for every image on which find_fid succeeded, at the end of the
\* analysis has_rm160 is true if and only if 0x67452301 and 0x98BADCFE both
\* occur as aligned words in the image, whichever path find_ramf takes.
C11_Rm160IffBoth == Analysed => (rf.has_rm160 <=> BothRm160)

\* find_fid has returned an offset
FidFound == pc \in {"fid_done", "ramf_done", "ivt_done", "cks_done", "exit_ok"}

\* C12: whenever find_loader and find_fid both succeed, p_fid differs from
\* p_loader.
C12_FidNotLoader ==
    (FidFound /\ u8memstr(buf, siz, 0, siz, STR_LOADER, mem) >= 0) => rf.p_fid # rf.p_loader

\* p_fid + sfid_size, where find_ramf looks first
Nominal == Idx(Add32(rf.p_fid, ToU32(rf.sfid_size)))

HeaderAt(d) == Rd(buf, siz, Nominal + d, mem) = Ft.RAMF_header

\* find_ramf has run and did not see RAMF_header at p_fid + sfid_size
Swept == pc = "ramf_done" /\ Ft.RAMF_header # Zero32 /\ ~HeaderAt(0)

Abs(n) == IF n < 0 THEN 0 - n ELSE n

\* the drifts in the order the claim gives, and in the order of the loop
ClaimedDrifts == <<4, -4, 8, -8, 12, -12>> \o [i \in 1 .. 12 |-> 12 + 4 * i]

LoopDrifts == <<4, -4, 8, -8, 12>> \o [i \in 1 .. 12 |-> 12 + 4 * i]

\* the first drift of seq, among those the predicate near allows, whose word
\* is RAMF_header (0: none)
FirstHit(seq, upto) ==
    LET hits == {i \in 1 .. Len(seq) : Abs(seq[i]) <= upto /\ HeaderAt(seq[i])}
    IN  IF hits = {} THEN 0 ELSE seq[SetMin(hits)]

\* the record holds the drift d
DriftIs(d) ==
    /\ rf.ramf_offset = d
    /\ rf.p_ramf = Add32(Add32(rf.p_fid, ToU32(rf.sfid_size)), S32(d))
    /\ Abs(rf.ramf_offset) <= Ft.pRAMF_maxdist

\* C14 as claimed: the drifts probed are +4, -4, +8, -8, +12, -12, +16, +20,
\* ... up to pRAMF_maxdist; the first one whose word is RAMF_header becomes
\* ramf_offset, and p_ramf = p_fid + sfid_size + ramf_offset.
C14_SweepSymmetric == Swept => DriftIs(FirstHit(ClaimedDrifts, Ft.pRAMF_maxdist))

\* C14 as amended: the drifts probed are +4, -4, +8, -8, +12, +16, +20, ...
\* (-12 is not probed) strictly below pRAMF_maxdist; the first one whose word
\* is RAMF_header becomes ramf_offset, with p_ramf = p_fid + sfid_size +
\* ramf_offset and |ramf_offset| < pRAMF_maxdist; when none matches,
\* ramf_offset stays 0 and p_ramf stays p_fid + sfid_size.
C14_SweepAsLoop ==
    Swept => /\ DriftIs(FirstHit(LoopDrifts, Ft.pRAMF_maxdist - 1))
             /\ Abs(rf.ramf_offset) < Ft.pRAMF_maxdist

C14_Witness ==
    /\ Swept
    /\ rf.ramf_offset = -4
    /\ HeaderAt(-4)

\* C15: when RAMF_header is non-zero and neither p_fid + sfid_size nor any
\* probed drift holds it, find_ramf parses no RAMF field: pRAMjump,
\* pRAM_DLAmax, p_acstart, p_acend, p_ivt2 and p_ecurec are not taken from
\* the unconfirmed location and no alt checksum is validated.
C15_GiveUpNoParse ==
    (Swept /\ FirstHit(LoopDrifts, Ft.pRAMF_maxdist - 1) = 0) =>
        /\ \A v \in {rf.pRAMjump, rf.pRAM_DLAmax, rf.p_acstart, rf.p_acend, rf.p_ivt2,
                     rf.p_ecurec} : v \in {Zero32, UINT32_MAX}
        /\ ~rf.cks_alt_good

\* find_ramf has run its alt cks stage
AfterRamf ==
    \/ pc \in {"ramf_done", "ivt_done", "cks_done", "exit_ok"}
    \/ pc = "crashed" /\ "find_ramf" \in oob

\* C16: for every p_acstart < p_acend < N that passes the clamp of find_ramf,
\* the block of (((p_acend + 1 - p_acstart) & ~3) + 4) bytes at p_acstart that
\* validate_altcks folds lies inside [0, N).
C16_AltBlockInside ==
    (/\ AfterRamf /\ rf.fid_ic # FID_UNK
     /\ "ALTCKS" \in fidtypes[rf.fid_ic].features
     /\ Lt32(rf.p_acstart, rf.p_acend) /\ LtN(rf.p_acend, siz))
        => Idx(rf.p_acstart) + altcs_bsize(rf.p_acstart, rf.p_acend) <= siz

\* C17: find_fid reads only inside [0, N).
C17_FidReadsInside == "find_fid" \notin oob

\* aligned offsets c whose word is IVT2_expected and whose record, at
\* c - pIVT2, has ROMsize - 1 in its ROMEND word
EcuRecAnchors ==
    {c \in {i - (i % 4) : i \in DOMAIN buf} :
        /\ c + 4 <= siz
        /\ reconst_32(buf, c) = Ft.IVT2_expected
        /\ InB(siz, c - Ft.pIVT2 + Ft.pROMend)
        /\ reconst_32(buf, c - Ft.pIVT2 + Ft.pROMend) = ToU32(Ft.ROMsize - 1)}

\* C19: find_ecurec succeeds exactly when the image has such an anchor; it
\* then uses the lowest one, takes p_acstart, p_acend and p_ecurec from the
\* record at c - pIVT2, and reads only inside [0, N).
C19_EcurecIffAnchor ==
    (AfterRamf /\ rf.fid_ic # FID_UNK /\ "ECUREC" \in fidtypes[rf.fid_ic].features) =>
        \E e \in {find_ecurec([rf EXCEPT !.loaded = TRUE], buf, mem)} :
            /\ e.found <=> EcuRecAnchors # {}
            /\ ~e.oob
            /\ e.found =>
                 /\ e.rf.p_ivt2 = Ft.IVT2_expected
                 /\ InB(siz, SetMin(EcuRecAnchors) - Ft.pIVT2)
                 /\ e.rf.p_ecurec = reconst_32(buf, SetMin(EcuRecAnchors) - Ft.pIVT2)
                 /\ rf.p_ecurec = e.rf.p_ecurec

\* aligned offsets from 0x100 on that pass check_ivt
IvtCands ==
    {o \in {i - (i % 4) - 4 * k : i \in DOMAIN buf, k \in 0 .. 3} :
        /\ o >= 256 /\ o + IVT_MINSIZE <= siz
        /\ check_ivt(buf, siz, o, siz - o, mem)}

\* C20: for a ROM type with IVT2 the confidence is 99 when p_ivt2 is known
\* after find_ramf; otherwise 75 if a candidate of the scan from 0x100 has
\* 0xFFFF7FFC as its second word, 50 if there are candidates but none has it,
\* 0 if there is none.
C20_ConfByBest ==
    (pc = "ivt_done" /\ "IVT2" \in Ft.features) =>
        props.ivt_conf =
            IF rf.p_ivt2 # UINT32_MAX THEN 99
            ELSE IF \E o \in IvtCands : reconst_32(buf, o + 4) = <<65535, 32764>> THEN 75
            ELSE IF IvtCands # {} THEN 50
            ELSE 0

----------------------------------------------------------------------------
(* C21: the mang back-off of the bit loop *)

\* the iteration at hand has dx_i = 1, an incoming carry and s_i = 1
Infeasible == pc = "loop" /\ sol.bitcur >= 0 /\ Xn /\ sol.carry /\ Sn

C21_ReturnsAtOnce == [][Infeasible => pc' = "nosol" /\ sol' = sol]_vars

C21_Reached == pc = "nosol" /\ sol.mang # One32

\* the steps of the loop and the operator Solve agree
SolveAgrees ==
    LET r == Solve(sol.ds, sol.dx, 31, FALSE)
    IN  /\ pc = "solved" => r.ok /\ r.a = sol.a /\ r.b = sol.b /\ r.n = 32
        /\ pc = "nosol" => ~r.ok /\ r.n = 32 - sol.bitcur

----------------------------------------------------------------------------
(* C22: the words checksum_fix writes *)

\* (S, X): sum and xor of the words of the buffer handed to checksum_fix but
\* those at p_cks and p_ckx, the three slots counting as zero
Rest == Fold(buf0, siz, 0, siz \div 4, {fargs[i] : i \in 1 .. 5}, Zero32)

C22_WitnessOdd ==
    /\ pc = "fix_done" /\ ValidArgs(siz, fargs)
    /\ Lsb(CKS) # Lsb(CKX)
    /\ ~Established
    /\ reconst_32(buf, fargs[3]) # Zero32

----------------------------------------------------------------------------
(* C23: the bit loop of checksum_fix always runs to its end *)

\* C23: every call of checksum_fix returns; when it passes its argument check
\* the xor target is 0 once mang is folded in, the bit loop runs exactly 32
\* iterations, no bit takes the dx branch and the loop is never left through
\* the no-solution return.
C23_LoopRunsThrough ==
    pc = "fix_done" =>
        /\ fres.status \in {"abort", "fixed", "notfixed"}
        /\ fres.status = "abort" => fres.n = 0
        /\ fres.status # "abort" =>
              /\ fres.dx = Zero32
              /\ fres.n = 32
              /\ ~fres.xs

\* a call whose xor target was not 0 before mang was folded in
C23_Witness ==
    /\ pc = "fix_done"
    /\ fres.status = "notfixed"
    /\ fres.n = 32
    /\ fres.mang # Zero32
    /\ Xor32(fres.ckx, fres.mang) # Zero32

----------------------------------------------------------------------------
(* C24: the life of the image buffer *)

\* main has returned
Exited == pc \in {"exit_ok", "exit_err"}

\* C24: a buffer open_rom allocated is freed exactly once on every path of
\* main that returns, never twice; rf->buf is non-NULL exactly while the block
\* is live; no stage reads the buffer when it is not live; and close_rom
\* called here, once or twice in a row, frees a live buffer once and nothing
\* otherwise.
C24_BufferLifecycle ==
    LET c1 == close_rom(rf, heap)
        c2 == close_rom(c1.rf, c1.heap)
    IN  /\ heap.mallocs <= 1
        /\ heap.frees <= heap.mallocs
        /\ ~heap.dfree
        /\ ~heap.uaf
        /\ rf.loaded <=> heap.blk = "live"
        /\ Exited => heap.frees = heap.mallocs /\ heap.blk # "live"
        /\ c1.heap.frees = heap.frees + (IF heap.blk = "live" THEN 1 ELSE 0)
        /\ ~c1.heap.dfree
        /\ c2 = c1

\* the analysis read the buffer, failed, and badexit released it
C24_Witness ==
    /\ pc = "exit_err"
    /\ props.st = "NULL" /\ props.alloc = "ok"
    /\ heap.mallocs = 1 /\ heap.frees = 1 /\ heap.blk = "freed"

\* close_rom at badexit with nothing opened
C24_WitnessNothingOpen == pc = "exit_err" /\ heap = NoHeap

\* open_rom released its buffer itself after a short read
C24_WitnessShortRead ==
    pc = "exit_err" /\ heap.mallocs = 1 /\ heap.frees = 1 /\ props = NoProps

====
